---- MODULE Spec2Model ----
(***************************************************************************)
(* Model of the team task/project tracker: the team_members role guards    *)
(* (team-actions.ts), the task store mutations (task-actions.ts) and the   *)
(* optimistic comment / status handlers of the task detail page            *)
(* (TaskComments.tsx, tasks/[id]/page.tsx).                                *)
(***************************************************************************)
EXTENDS Integers, Sequences, FiniteSets, TLC

\* ------------------------------------------------------------------ bounds
MaxUsers == 2
MaxTasks == 2
MaxSubmits == 2
MaxFiles == 1
MaxList == 3
MaxExport == 2
MaxProjects == 2
MaxProjectTasks == 3

Users == 1..MaxUsers
\* supabase.auth.getUser() returning no user
NoUser == 0
Actors == Users \cup {NoUser}
\* who calls and whether the store accepts the write; without a user the
\* store is never reached
Callers == {<<NoUser, TRUE>>} \cup (Users \X BOOLEAN)
\* SQL NULL / a row that does not exist
NULL == "null"
\* a field left out of an input object
UNDEF == "undefined"
\* assignee_id left out of an input object
UndefUser == -1
TaskIds == 1..MaxTasks
Statuses == {"todo", "in_progress", "in_review", "complete"}
\* the status values the calls of the model ask for
StatusInputs == {"in_progress", "complete"}

VARIABLES
    \* ---- store: team_members of STUDIO_DIRECTION_TEAM_ID
    team_members,   \* user -> "admin" | "member" | NULL (no row)
    teamCall,       \* the last server action called on team_members
    teamResult,     \* what it returned
    formerAdmins,   \* members that a successful call has demoted or removed
    teamOps,        \* user -> the call of that user that is between two store operations
    statusOp,       \* the updateTaskStatus call between its read and its update
    \* ---- store: tasks
    tasks,          \* id -> [status, description, assignee_id, creator_id]
    taskCall,       \* the last server action called on tasks
    taskResult,     \* what it returned
    \* ---- store: the task shown by the task detail page and its comments
    srvStatus,      \* tasks.status of that task
    srvComments,    \* its task_comments rows, in created_at order
    \* ---- TaskPage (tasks/[id]/page.tsx) state
    task,           \* [status, comments] or NoTask
    pageLoading,    \* loading
    pageError,      \* error
    updatingStatus,
    \* ---- TaskComments (TaskComments.tsx) state, reset while it is not rendered
    comments,
    newComment,
    uploadedFiles,
    cLoading,       \* loading
    cError,         \* error
    effectPending,  \* the comments prop changed; useEffect has yet to run
    \* ---- handlers in flight
    sub,            \* the comment submission of handleSubmit
    stc,            \* the status change of handleStatusChange
    load,           \* loadTaskDetails
    clock,          \* Date.now(), advanced by each submission
    commentResult,  \* what addComment, called from outside the form, returned last
    \* ---- AllTasksPage (all-tasks page) state
    allTasks,       \* tasks: what getAllTasks returned
    filteredTasks,
    searchQuery,
    statusFilter,
    assigneeFilter,
    priorityFilter,
    dueDateFrom,
    dueDateTo,
    sort_by,        \* filters.sort_by
    sort_order,     \* filters.sort_order
    selectedTasks,  \* the ids in the Set
    bulkActionLoading,
    listLoading,    \* loading
    bulk,           \* the bulk handler in flight
    alertShown,     \* the message of the last alert()
    csvContent,     \* the text of the last export
    \* ---- store: projects and the rows a task owns
    projects,       \* the ids of the rows of projects
    project_rows,   \* id -> [name, description, start_date, end_date, budget, status, updated_at]
    time_entries,   \* rows [id, task_id, minutes, date]
    task_comments,  \* rows [id, task_id]
    projCall,       \* the last server action called on projects
    projResult      \* what it returned

\* the calls that are between two store operations
inFlight == <<teamOps, statusOp>>
teamVars == <<team_members, teamCall, teamResult, formerAdmins, inFlight>>
taskVars == <<tasks, taskCall, taskResult>>
srvVars == <<srvStatus, srvComments>>
parentVars == <<task, pageLoading, pageError, updatingStatus>>
childVars == <<comments, newComment, uploadedFiles, cLoading, cError, effectPending>>
pageVars == <<srvVars, parentVars, childVars, sub, stc, load, clock, commentResult>>
filterVars == <<searchQuery, statusFilter, assigneeFilter, priorityFilter,
                dueDateFrom, dueDateTo, sort_by, sort_order>>
selVars == <<selectedTasks, bulkActionLoading, listLoading, bulk, alertShown, csvContent>>
listVars == <<allTasks, filteredTasks, filterVars, selVars>>
ownedVars == <<time_entries, task_comments>>
projVars == <<projects, project_rows, projCall, projResult>>

vars == <<team_members, teamCall, teamResult, formerAdmins, teamOps, statusOp,
          tasks, taskCall, taskResult,
          srvStatus, srvComments, task, pageLoading, pageError, updatingStatus,
          comments, newComment, uploadedFiles, cLoading, cError, effectPending,
          sub, stc, load, clock, commentResult,
          allTasks, filteredTasks, searchQuery, statusFilter, assigneeFilter,
          priorityFilter, dueDateFrom, dueDateTo, sort_by, sort_order,
          selectedTasks, bulkActionLoading, listLoading, bulk, alertShown, csvContent,
          projects, project_rows, time_entries, task_comments, projCall, projResult>>

\* ------------------------------------------------------------ result values
NotAuthenticated == "Not authenticated"
OnlyAdminsRole == "Only admins can change member roles"
OnlyAdminsRemove == "Only admins can remove members"
LastAdminError == "Cannot remove the last admin"
CannotRemoveSelf == "Cannot remove yourself"
StoreFailure == "store error"
NotAuthorizedUpdate == "Not authorized to update this task"
NotAuthorizedDelete == "Not authorized to delete this task"
Success == "success"

\* ============================================================== team_members

\* select count where role = 'admin'
AdminCount(tm) == Cardinality({u \in Users : tm[u] = "admin"})

IsAdminAnyMember(tm, actor) == tm[actor] # NULL
\* currentUserMember?.role === 'admin', read from team_members in the call
IsAdmin(tm, actor) == tm[actor] = "admin"

LastAdminOffByOne(tm) == AdminCount(tm) <= 0
\* (adminCount || 0) <= 1
LastAdmin(tm) == AdminCount(tm) <= 1

UpdateMemberRoleResult(tm, actor, userId, newRole, storeOk) ==
    IF actor = NoUser THEN NotAuthenticated
    ELSE IF ~IsAdmin(tm, actor) THEN OnlyAdminsRole
    ELSE IF newRole = "member" /\ userId = actor /\ LastAdmin(tm) THEN LastAdminError
    ELSE IF ~storeOk THEN StoreFailure
    ELSE Success

RemoveMemberResult(tm, actor, userId, storeOk) ==
    IF actor = NoUser THEN NotAuthenticated
    ELSE IF ~IsAdmin(tm, actor) THEN OnlyAdminsRemove
    ELSE IF userId = actor THEN CannotRemoveSelf
    ELSE IF tm[userId] = "admin" /\ LastAdmin(tm) THEN LastAdminError
    ELSE IF ~storeOk THEN StoreFailure
    ELSE Success

\* update({role}).eq(team_id).eq(user_id): a user without a row matches nothing
UpdateMemberRole(actor, userId, newRole, storeOk) ==
    LET r == UpdateMemberRoleResult(team_members, actor, userId, newRole, storeOk)
        changes == r = Success /\ team_members[userId] # NULL
    IN  /\ team_members' = IF changes THEN [team_members EXCEPT ![userId] = newRole]
                           ELSE team_members
        /\ formerAdmins' = IF changes /\ team_members[userId] = "admin" /\ newRole = "member"
                           THEN formerAdmins \cup {userId}
                           ELSE IF changes /\ newRole = "admin"
                           THEN formerAdmins \ {userId}
                           ELSE formerAdmins
        /\ teamCall' = [op |-> "updateMemberRole", actor |-> actor,
                        userId |-> userId, newRole |-> newRole]
        /\ teamResult' = r
        /\ UNCHANGED inFlight

RemoveMember(actor, userId, storeOk) ==
    LET r == RemoveMemberResult(team_members, actor, userId, storeOk)
        changes == r = Success /\ team_members[userId] # NULL
    IN  /\ team_members' = IF changes THEN [team_members EXCEPT ![userId] = NULL]
                           ELSE team_members
        /\ formerAdmins' = IF changes /\ team_members[userId] = "admin"
                           THEN formerAdmins \cup {userId}
                           ELSE formerAdmins
        /\ teamCall' = [op |-> "removeMember", actor |-> actor,
                        userId |-> userId, newRole |-> NULL]
        /\ teamResult' = r
        /\ UNCHANGED inFlight

\* ---- the same two actions, one store operation at a time, so that the calls
\* of two users interleave
NoTeamOp == [pc |-> "idle", op |-> "none", userId |-> NoUser, newRole |-> NULL,
             result |-> "none"]

\* a user calls updateMemberRole or removeMember; getUser() has answered
TeamCallStart(actor, op, userId, newRole) ==
    /\ teamOps[actor].pc = "idle"
    /\ teamOps' = [teamOps EXCEPT ![actor] =
                     [pc |-> "roleCheck", op |-> op, userId |-> userId,
                      newRole |-> newRole, result |-> "none"]]
    /\ UNCHANGED <<team_members, teamCall, teamResult, formerAdmins, statusOp>>

TeamReturn(actor, result) == [teamOps[actor] EXCEPT !.pc = "idle", !.result = result]

\* select('role').eq('user_id', user.id).single() and the checks that need
\* no further read
TeamRoleCheck(actor) ==
    LET c == teamOps[actor]
    IN  /\ c.pc = "roleCheck"
        /\ teamOps' = [teamOps EXCEPT ![actor] =
              IF ~IsAdmin(team_members, actor)
              THEN TeamReturn(actor, IF c.op = "removeMember" THEN OnlyAdminsRemove
                                     ELSE OnlyAdminsRole)
              ELSE IF c.op = "removeMember"
              THEN IF c.userId = actor THEN TeamReturn(actor, CannotRemoveSelf)
                   ELSE [c EXCEPT !.pc = "targetRead"]
              ELSE IF c.newRole = "member" /\ c.userId = actor
              THEN [c EXCEPT !.pc = "adminCount"]
              ELSE [c EXCEPT !.pc = "write"]]
        /\ UNCHANGED <<team_members, teamCall, teamResult, formerAdmins, statusOp>>

\* removeMember: select('role').eq('user_id', userId).single()
TeamTargetRead(actor) ==
    LET c == teamOps[actor]
    IN  /\ c.pc = "targetRead"
        /\ teamOps' = [teamOps EXCEPT ![actor] =
              IF team_members[c.userId] = "admin" THEN [c EXCEPT !.pc = "adminCount"]
              ELSE [c EXCEPT !.pc = "write"]]
        /\ UNCHANGED <<team_members, teamCall, teamResult, formerAdmins, statusOp>>

\* select('*', {count: 'exact', head: true}).eq('role', 'admin')
TeamAdminCount(actor) ==
    LET c == teamOps[actor]
    IN  /\ c.pc = "adminCount"
        /\ teamOps' = [teamOps EXCEPT ![actor] =
              IF LastAdmin(team_members) THEN TeamReturn(actor, LastAdminError)
              ELSE [c EXCEPT !.pc = "write"]]
        /\ UNCHANGED <<team_members, teamCall, teamResult, formerAdmins, statusOp>>

\* update({role: newRole}).eq('user_id', userId) or delete().eq('user_id', userId)
TeamWrite(actor, storeOk) ==
    LET c == teamOps[actor]
        changes == storeOk /\ team_members[c.userId] # NULL
        role == IF c.op = "removeMember" THEN NULL ELSE c.newRole
    IN  /\ c.pc = "write"
        /\ team_members' = IF changes THEN [team_members EXCEPT ![c.userId] = role]
                           ELSE team_members
        /\ formerAdmins' = IF changes /\ team_members[c.userId] = "admin" /\ role # "admin"
                           THEN formerAdmins \cup {c.userId}
                           ELSE IF changes /\ role = "admin"
                           THEN formerAdmins \ {c.userId}
                           ELSE formerAdmins
        /\ teamOps' = [teamOps EXCEPT ![actor] =
                         TeamReturn(actor, IF storeOk THEN Success ELSE StoreFailure)]
        /\ UNCHANGED <<teamCall, teamResult, statusOp>>

\* ===================================================================== tasks

NoCall == [op |-> "none", actor |-> NoUser, taskIds |-> {}]

\* project_id null
NoProject == 0
ProjectIds == 1..MaxProjects
NoProjCall == [op |-> "none", actor |-> NoUser, projectId |-> NoProject,
               startDate |-> 0, endDate |-> 0]
NoProjResult == [error |-> NULL, data |-> <<>>]

\* no project, no time entry and no comment yet
ProjIdle ==
    /\ projects = {}
    /\ project_rows = <<>>
    /\ time_entries = {}
    /\ task_comments = {}
    /\ projCall = NoProjCall
    /\ projResult = NoProjResult

\* the store before any task was created
TaskIdle ==
    /\ tasks = <<>>
    /\ taskCall = NoCall
    /\ taskResult = "none"

CanMutateTaskAnyone(tk, actor, taskId) == taskId \in DOMAIN tk
\* !(!task || (task.assignee_id !== user.id && task.creator_id !== user.id)),
\* task being the row read in this call
CanMutateTask(tk, actor, taskId) ==
    /\ taskId \in DOMAIN tk
    /\ \/ tk[taskId].assignee_id = actor
       \/ tk[taskId].creator_id = actor

\* what updateTaskStatus, updateTaskDescription, updateTask and deleteTask return
MutateTaskResult(tk, actor, taskId, notAuthorized, storeOk) ==
    IF actor = NoUser THEN NotAuthenticated
    ELSE IF ~CanMutateTask(tk, actor, taskId) THEN notAuthorized
    ELSE IF ~storeOk THEN StoreFailure
    ELSE Success

\* x || null
OrNull(x) == IF x = "" THEN NULL ELSE x

\* insert(...) gives the row a fresh id
FreshTaskId == CHOOSE t \in TaskIds \ DOMAIN tasks :
                  \A o \in TaskIds \ DOMAIN tasks : t <= o

createTask(actor, description, assignee_id, project_id, storeOk) ==
    LET r == IF actor = NoUser THEN NotAuthenticated
             ELSE IF ~storeOk THEN StoreFailure ELSE Success
    IN  /\ TaskIds \ DOMAIN tasks # {}
        /\ tasks' = IF r = Success
                    THEN [t \in DOMAIN tasks \cup {FreshTaskId} |->
                            IF t \in DOMAIN tasks THEN tasks[t]
                            ELSE [status |-> "todo",
                                  description |-> OrNull(description),
                                  assignee_id |-> assignee_id,
                                  creator_id |-> actor,
                                  project_id |-> project_id]]
                    ELSE tasks
        /\ taskCall' = [op |-> "createTask", actor |-> actor,
                        taskIds |-> IF r = Success THEN {FreshTaskId} ELSE {}]
        /\ taskResult' = r

updateTaskStatus(actor, taskId, status, storeOk) ==
    LET r == MutateTaskResult(tasks, actor, taskId, NotAuthorizedUpdate, storeOk)
    IN  /\ tasks' = IF r = Success
                    THEN [tasks EXCEPT ![taskId].status = status]
                    ELSE tasks
        /\ taskCall' = [op |-> "updateTaskStatus", actor |-> actor, taskIds |-> {taskId}]
        /\ taskResult' = r

updateTaskDescription(actor, taskId, description, storeOk) ==
    LET r == MutateTaskResult(tasks, actor, taskId, NotAuthorizedUpdate, storeOk)
    IN  /\ tasks' = IF r = Success
                    THEN [tasks EXCEPT ![taskId].description = OrNull(description)]
                    ELSE tasks
        /\ taskCall' = [op |-> "updateTaskDescription", actor |-> actor,
                        taskIds |-> {taskId}]
        /\ taskResult' = r

\* input.description and input.assignee_id are applied when not undefined;
\* assignee_id '' is stored as null (NoUser)
updateTask(actor, taskId, description, assignee_id, storeOk) ==
    LET r == MutateTaskResult(tasks, actor, taskId, NotAuthorizedUpdate, storeOk)
        old == tasks[taskId]
    IN  /\ tasks' = IF r = Success
                    THEN [tasks EXCEPT ![taskId] =
                            [old EXCEPT
                               !.description = IF description = UNDEF THEN @
                                               ELSE OrNull(description),
                               !.assignee_id = IF assignee_id = UndefUser THEN @
                                               ELSE assignee_id]]
                    ELSE tasks
        /\ taskCall' = [op |-> "updateTask", actor |-> actor, taskIds |-> {taskId}]
        /\ taskResult' = r

OwnedRowsKept(rows, taskId) == rows
\* a task owns its time entries and comments: they are deleted with it
OwnedRowsRemoved(rows, taskId) == {row \in rows : row.task_id # taskId}

deleteTask(actor, taskId, storeOk) ==
    LET r == MutateTaskResult(tasks, actor, taskId, NotAuthorizedDelete, storeOk)
    IN  /\ tasks' = IF r = Success
                    THEN [t \in DOMAIN tasks \ {taskId} |-> tasks[t]]
                    ELSE tasks
        /\ time_entries' = IF r = Success THEN OwnedRowsRemoved(time_entries, taskId)
                           ELSE time_entries
        /\ task_comments' = IF r = Success THEN OwnedRowsRemoved(task_comments, taskId)
                            ELSE task_comments
        /\ taskCall' = [op |-> "deleteTask", actor |-> actor, taskIds |-> {taskId}]
        /\ taskResult' = r

BulkTargetsAll(tk, taskIds) == DOMAIN tk
\* .in('id', taskIds): the rows of tasks with one of the ids
BulkTargets(tk, taskIds) == DOMAIN tk \cap taskIds

\* update(updateData).in('id', taskIds): no read of assignee_id / creator_id
bulkUpdateTasks(actor, taskIds, status, assignee_id, storeOk) ==
    LET r == IF actor = NoUser THEN NotAuthenticated
             ELSE IF ~storeOk THEN StoreFailure ELSE Success
    IN  /\ tasks' = IF r = Success
                    THEN [t \in DOMAIN tasks |->
                            IF t \in BulkTargets(tasks, taskIds)
                            THEN [tasks[t] EXCEPT
                                    !.status = IF status \in {UNDEF, ""} THEN @ ELSE status,
                                    !.assignee_id = IF assignee_id = UndefUser THEN @
                                                    ELSE assignee_id]
                            ELSE tasks[t]]
                    ELSE tasks
        /\ taskCall' = [op |-> "bulkUpdateTasks", actor |-> actor, taskIds |-> taskIds]
        /\ taskResult' = r

\* ---- updateTaskStatus, one store operation at a time
NoStatusOp == [pc |-> "idle", actor |-> NoUser, taskId |-> 0, status |-> UNDEF]

\* a user calls updateTaskStatus; getUser() has answered
updateTaskStatusStart(actor, taskId, status) ==
    /\ statusOp.pc = "idle"
    /\ statusOp' = [pc |-> "authRead", actor |-> actor, taskId |-> taskId,
                    status |-> status]
    /\ UNCHANGED <<taskVars, team_members, teamCall, teamResult, formerAdmins, teamOps>>

\* select('assignee_id, creator_id').eq('id', taskId).single() and the check
updateTaskStatusRead ==
    /\ statusOp.pc = "authRead"
    /\ IF CanMutateTask(tasks, statusOp.actor, statusOp.taskId)
       THEN /\ statusOp' = [statusOp EXCEPT !.pc = "write"]
            /\ UNCHANGED taskVars
       ELSE /\ statusOp' = NoStatusOp
            /\ taskCall' = [op |-> "updateTaskStatus", actor |-> statusOp.actor,
                            taskIds |-> {statusOp.taskId}]
            /\ taskResult' = NotAuthorizedUpdate
            /\ UNCHANGED tasks
    /\ UNCHANGED <<team_members, teamCall, teamResult, formerAdmins, teamOps>>

\* update({status, updated_at}).eq('id', taskId): the row with that id
StatusWriteMatches(tk, actor, taskId) == taskId \in DOMAIN tk

updateTaskStatusWrite(storeOk) ==
    LET written == storeOk /\ StatusWriteMatches(tasks, statusOp.actor, statusOp.taskId)
    IN  /\ statusOp.pc = "write"
        /\ tasks' = IF written
                    THEN [tasks EXCEPT ![statusOp.taskId].status = statusOp.status]
                    ELSE tasks
        /\ taskCall' = [op |-> "updateTaskStatus", actor |-> statusOp.actor,
                        taskIds |-> {statusOp.taskId}]
        /\ taskResult' = IF written THEN Success ELSE StoreFailure
        /\ statusOp' = NoStatusOp
        /\ UNCHANGED <<team_members, teamCall, teamResult, formerAdmins, teamOps>>

TaskNotFound == "Task not found"

CopyCreatorOriginal(originalTask, actor) == originalTask.creator_id
\* creator_id: user.id in the row duplicateTask and convertTaskToTemplate insert
CopyCreator(originalTask, actor) == actor

\* what duplicateTask and convertTaskToTemplate return: the original is
\* read by id, with no check of who asks
CopyTaskResult(tk, actor, taskId, storeOk) ==
    IF actor = NoUser THEN NotAuthenticated
    ELSE IF taskId \notin DOMAIN tk THEN TaskNotFound
    ELSE IF ~storeOk THEN StoreFailure
    ELSE Success

\* the copy of the original: status todo, the caller as creator
duplicateTask(actor, taskId, storeOk) ==
    LET r == CopyTaskResult(tasks, actor, taskId, storeOk)
    IN  /\ TaskIds \ DOMAIN tasks # {}
        /\ tasks' = IF r = Success
                    THEN [t \in DOMAIN tasks \cup {FreshTaskId} |->
                            IF t \in DOMAIN tasks THEN tasks[t]
                            ELSE [status |-> "todo",
                                  description |-> tasks[taskId].description,
                                  assignee_id |-> tasks[taskId].assignee_id,
                                  creator_id |-> CopyCreator(tasks[taskId], actor),
                                  project_id |-> tasks[taskId].project_id]]
                    ELSE tasks
        /\ taskCall' = [op |-> "duplicateTask", actor |-> actor,
                        taskIds |-> IF r = Success THEN {FreshTaskId} ELSE {}]
        /\ taskResult' = r

\* the template of the original: a task without assignee, status todo, the
\* caller as creator
convertTaskToTemplate(actor, taskId, storeOk) ==
    LET r == CopyTaskResult(tasks, actor, taskId, storeOk)
    IN  /\ TaskIds \ DOMAIN tasks # {}
        /\ tasks' = IF r = Success
                    THEN [t \in DOMAIN tasks \cup {FreshTaskId} |->
                            IF t \in DOMAIN tasks THEN tasks[t]
                            ELSE [status |-> "todo",
                                  description |-> tasks[taskId].description,
                                  assignee_id |-> NoUser,
                                  creator_id |-> CopyCreator(tasks[taskId], actor),
                                  project_id |-> tasks[taskId].project_id]]
                    ELSE tasks
        /\ taskCall' = [op |-> "convertTaskToTemplate", actor |-> actor,
                        taskIds |-> IF r = Success THEN {FreshTaskId} ELSE {}]
        /\ taskResult' = r

\* ================================================================= projects

\* timeEntries.reduce((sum, entry) => sum + entry.minutes, 0)
RECURSIVE SumMinutes(_)
SumMinutes(rows) ==
    IF rows = {} THEN 0
    ELSE LET entry == CHOOSE row \in rows : TRUE
         IN  entry.minutes + SumMinutes(rows \ {entry})

\* from('tasks').select(...).eq('project_id', projectId)
ProjectTasks(tk, projectId) == {t \in DOMAIN tk : tk[t].project_id = projectId}

RoundPercentDown(completed, total) == (100 * completed) \div total
\* Math.round((completedTaskCount / totalTasks) * 100)
RoundPercent(completed, total) == (200 * completed + total) \div (2 * total)

\* the statistics getAllProjects and getProjectById add to a project
ProjectStats(projectId) ==
    LET rows == ProjectTasks(tasks, projectId)
        completedTaskCount == Cardinality({t \in rows : tasks[t].status = "complete"})
        totalTasks == Cardinality(rows)
    IN  [task_count |-> totalTasks,
         completed_task_count |-> completedTaskCount,
         total_tracked_minutes |-> SumMinutes({e \in time_entries : e.task_id \in rows}),
         progress_percentage |-> IF totalTasks > 0
                                 THEN RoundPercent(completedTaskCount, totalTasks)
                                 ELSE 0]

getAllProjects(actor) ==
    /\ projCall' = [NoProjCall EXCEPT !.op = "getAllProjects", !.actor = actor]
    /\ projResult' = IF actor = NoUser THEN [error |-> NotAuthenticated, data |-> <<>>]
                     ELSE [error |-> NULL, data |-> [p \in projects |-> ProjectStats(p)]]
    /\ UNCHANGED <<projects, project_rows, taskVars, ownedVars>>

getProjectById(actor, projectId) ==
    /\ projCall' = [NoProjCall EXCEPT !.op = "getProjectById", !.actor = actor,
                                      !.projectId = projectId]
    /\ projResult' = IF actor = NoUser THEN [error |-> NotAuthenticated, data |-> <<>>]
                     ELSE IF projectId \notin projects
                     THEN [error |-> StoreFailure, data |-> <<>>]
                     ELSE [error |-> NULL, data |-> ProjectStats(projectId)]
    /\ UNCHANGED <<projects, project_rows, taskVars, ownedVars>>

\* task.daily_time[dateStr] += entry.minutes, from 0 if there is none yet
AddDay(daily_time, date, minutes) ==
    [d \in DOMAIN daily_time \cup {date} |->
        (IF d \in DOMAIN daily_time THEN daily_time[d] ELSE 0)
        + (IF d = date THEN minutes ELSE 0)]

AggregateTotalOncePerDay(taskMap, entries) ==
    [t \in DOMAIN taskMap |->
        LET mine == {e \in entries : e.task_id = t}
        IN  [daily_time |-> [d \in {e.date : e \in mine} |->
                               SumMinutes({e \in mine : e.date = d})],
             total_minutes |-> SumMinutes({e \in mine :
                                  \A o \in mine : o.date = e.date => e.id <= o.id})]]
\* timeEntries.forEach(entry => ...): each entry is added to the day and to
\* the total of its task
RECURSIVE Aggregate(_, _)
Aggregate(taskMap, entries) ==
    IF entries = {} THEN taskMap
    ELSE LET entry == CHOOSE e \in entries : TRUE
             next == IF entry.task_id \in DOMAIN taskMap
                     THEN [taskMap EXCEPT ![entry.task_id] =
                             [daily_time |-> AddDay(@.daily_time, entry.date, entry.minutes),
                              total_minutes |-> @.total_minutes + entry.minutes]]
                     ELSE taskMap
         IN  Aggregate(next, entries \ {entry})

\* tasksArray.reduce((sum, task) => sum + task.total_minutes, 0)
RECURSIVE SumTotals(_, _)
SumTotals(taskMap, ids) ==
    IF ids = {} THEN 0
    ELSE LET t == CHOOSE x \in ids : TRUE
         IN  taskMap[t].total_minutes + SumTotals(taskMap, ids \ {t})

\* .in('task_id', taskIds).gte('date', startDate).lte('date', endDate)
EntriesInRange(taskIds, startDate, endDate) ==
    {e \in time_entries : e.task_id \in taskIds /\ e.date >= startDate /\ e.date <= endDate}

getProjectTimesheet(actor, projectId, startDate, endDate) ==
    LET taskIds == ProjectTasks(tasks, projectId)
        taskMap == [t \in taskIds |-> [daily_time |-> <<>>, total_minutes |-> 0]]
        tasksArray == Aggregate(taskMap, EntriesInRange(taskIds, startDate, endDate))
    IN  /\ projCall' = [op |-> "getProjectTimesheet", actor |-> actor,
                        projectId |-> projectId, startDate |-> startDate,
                        endDate |-> endDate]
        /\ projResult' =
             IF actor = NoUser THEN [error |-> NotAuthenticated, data |-> <<>>]
             ELSE IF taskIds = {}
             THEN [error |-> NULL, data |-> [tasks |-> <<>>, week_total |-> 0]]
             ELSE [error |-> NULL,
                   data |-> [tasks |-> tasksArray,
                             week_total |-> SumTotals(tasksArray, taskIds)]]
        /\ UNCHANGED <<projects, project_rows, taskVars, ownedVars>>

OnDeleteCascade(tk, projectId) ==
    [t \in {x \in DOMAIN tk : tk[x].project_id # projectId} |-> tk[t]]
\* tasks.project_id REFERENCES projects(id) ON DELETE SET NULL
OnDeleteSetNull(tk, projectId) ==
    [t \in DOMAIN tk |-> IF tk[t].project_id = projectId
                         THEN [tk[t] EXCEPT !.project_id = NoProject]
                         ELSE tk[t]]

deleteProject(actor, projectId, storeOk) ==
    LET r == IF actor = NoUser THEN NotAuthenticated
             ELSE IF ~storeOk THEN StoreFailure ELSE Success
    IN  /\ projCall' = [NoProjCall EXCEPT !.op = "deleteProject", !.actor = actor,
                                          !.projectId = projectId]
        /\ projResult' = [error |-> IF r = Success THEN NULL ELSE r, data |-> <<>>]
        /\ projects' = IF r = Success THEN projects \ {projectId} ELSE projects
        /\ project_rows' = [p \in projects' |-> project_rows[p]]
        /\ tasks' = IF r = Success /\ projectId \in projects
                    THEN OnDeleteSetNull(tasks, projectId)
                    ELSE tasks
        /\ UNCHANGED <<taskCall, taskResult, ownedVars>>

\* a row of projects as createProject has stored it
StoredProject ==
    [name |-> "n1", description |-> "d1", start_date |-> 5, end_date |-> 9,
     budget |-> 100, status |-> "active", updated_at |-> 0]

\* start_date, end_date or budget left out of an input object
UndefNumber == -1
\* null in start_date, end_date or budget
NullNumber == 0

\* Partial<CreateProjectInput>: each field is a value or undefined
ProjectInputs ==
    [name : {UNDEF, "n2"}, description : {UNDEF, "d2"}, start_date : {UndefNumber, 7},
     end_date : {UndefNumber}, budget : {UndefNumber, 200}, status : {UNDEF, "completed"}]

\* new Date().toISOString() of the calls of the model
Now == 1

KeptIfUndefined(stored, value) == IF value = UNDEF THEN stored ELSE value
\* input.start_date || null, input.end_date || null, input.budget || null:
ValueOrNull(stored, value) == IF value \in {UndefNumber, 0} THEN NullNumber ELSE value

\* update({name: input.name, ...}): a key whose value is undefined is left
\* out of the body of the request, a null is written
updateProject(actor, projectId, input, storeOk) ==
    LET r == IF actor = NoUser THEN NotAuthenticated
             ELSE IF ~storeOk \/ projectId \notin projects THEN StoreFailure
             ELSE Success
        old == project_rows[projectId]
    IN  /\ projCall' = [NoProjCall EXCEPT !.op = "updateProject", !.actor = actor,
                                          !.projectId = projectId]
        /\ projResult' = [error |-> IF r = Success THEN NULL ELSE r, data |-> <<>>]
        /\ project_rows' =
              IF r = Success
              THEN [project_rows EXCEPT ![projectId] =
                      [name |-> KeptIfUndefined(old.name, input.name),
                       description |-> KeptIfUndefined(old.description, input.description),
                       start_date |-> ValueOrNull(old.start_date, input.start_date),
                       end_date |-> ValueOrNull(old.end_date, input.end_date),
                       budget |-> ValueOrNull(old.budget, input.budget),
                       status |-> KeptIfUndefined(old.status, input.status),
                       updated_at |-> Now]]
              ELSE project_rows
        /\ UNCHANGED <<projects, taskVars, ownedVars>>

\* the rows of tasks of a team with projects: in a project or in none
ProjTaskRows ==
    {[status |-> s, description |-> NULL, assignee_id |-> 1, creator_id |-> 1,
      project_id |-> p] : s \in {"todo", "complete"}, p \in ProjectIds \cup {NoProject}}

\* tables of MaxProjectTasks tasks: the first in project 1, none but the
\* second in the last project
ProjTaskTables ==
    {tk \in [1..MaxProjectTasks -> ProjTaskRows] :
        /\ tk[1].project_id = 1
        /\ \A t \in 2..MaxProjectTasks : tk[t].project_id # MaxProjects \/ t = 2}

\* the time entries that members may have logged
EntryPool ==
    {[id |-> 1, task_id |-> 1, minutes |-> 30, date |-> 2],
     [id |-> 2, task_id |-> 1, minutes |-> 45, date |-> 2],
     [id |-> 3, task_id |-> 1, minutes |-> 60, date |-> 5],
     [id |-> 4, task_id |-> 2, minutes |-> 15, date |-> 3]}

\* a store with projects, tasks, time entries and one comment on each task
ProjInit ==
    /\ projects = ProjectIds
    /\ project_rows = [p \in ProjectIds |-> StoredProject]
    /\ tasks \in ProjTaskTables
    /\ taskCall = NoCall
    /\ taskResult = "none"
    /\ time_entries \in {{}, EntryPool}
    /\ task_comments = {[id |-> t, task_id |-> t] : t \in DOMAIN tasks}
    /\ projCall = NoProjCall
    /\ projResult = NoProjResult

\* ========================================================= task detail page

NoTask == [status |-> "none", comments |-> <<>>]
NoComment == [id |-> 0, content |-> NULL, files |-> <<>>]
EmptyComment == "Comment cannot be empty"

\* what the editor can hold: nothing, markup without text, a text
Texts == {"", "<p> </p>", "hello "}

\* text.replace(/<[^>]*>/g, '')
StripTags(t) == IF t = "<p> </p>" THEN " " ELSE t
\* text.trim()
Trim(t) == IF t = " " THEN "" ELSE IF t = "hello " THEN "hello" ELSE t

IdleSub == [pc |-> "idle", tempId |-> 0, content |-> "", files |-> <<>>,
            before |-> <<>>, data |-> NoComment, error |-> NULL, notified |-> 0,
            orphaned |-> FALSE, staleTask |-> NoTask]
IdleStc == [pc |-> "idle", oldStatus |-> "none", newStatus |-> "none",
            staleTask |-> NoTask]
IdleLoad == [pc |-> "idle", by |-> "none"]

\* TaskPage renders the task (and TaskComments in it) only past its three
\* early returns
Rendered(l, e, t) == ~l /\ e = NULL /\ t # NoTask
PageShown == Rendered(pageLoading, pageError, task)

\* prev => [...prev, optimisticComment]
AddPending(cs, optimisticComment) == Append(cs, optimisticComment)

RemovePendingKeepsAll(cs, tempId) == cs
\* prev.filter(c => c.id !== optimisticComment.id)
RemovePending(cs, tempId) ==
    LET F[i \in 0..Len(cs)] ==
          IF i = 0 THEN <<>>
          ELSE IF cs[i].id # tempId THEN Append(F[i - 1], cs[i]) ELSE F[i - 1]
    IN  F[Len(cs)]

ReplacePendingAppends(cs, tempId, data) == Append(cs, data)
\* prev.map(c => c.id === optimisticComment.id ? result.data : c)
ReplacePending(cs, tempId, data) ==
    [i \in DOMAIN cs |-> IF cs[i].id = tempId THEN data ELSE cs[i]]

OnCommentAddedIgnored(t, newCommentRow) == t
\* onCommentAdded of TaskPage: the task is the one of the render that
\* handleSubmit was created in
OnCommentAdded(t, newCommentRow) ==
    IF t # NoTask THEN [t EXCEPT !.comments = Append(t.comments, newCommentRow)]
    ELSE t

\* the row addComment inserts and returns
InsertedRow(content, files) ==
    [id |-> Len(srvComments) + 1,
     content |-> IF Trim(content) = "" THEN NULL ELSE Trim(content),
     files |-> files]

AddCommentValidAlways(content, files) == TRUE
\* !(!content.trim() && (!attachments || attachments.length === 0))
AddCommentValid(content, files) == ~(Trim(content) = "" /\ Len(files) = 0)

\* what addComment returns
AddCommentResult(actor, content, files, storeOk) ==
    IF actor = NoUser THEN NotAuthenticated
    ELSE IF ~AddCommentValid(content, files) THEN EmptyComment
    ELSE IF ~storeOk THEN StoreFailure
    ELSE Success

\* addComment called with any arguments, not by the form of this page
addComment(actor, content, files, storeOk) ==
    LET r == AddCommentResult(actor, content, files, storeOk)
    IN  /\ Len(srvComments) < MaxSubmits + 1
        /\ commentResult' = r
        /\ srvComments' = IF r = Success
                          THEN Append(srvComments, InsertedRow(content, files))
                          ELSE srvComments
        /\ UNCHANGED <<srvStatus, parentVars, childVars, sub, stc, load, clock>>

\* TaskComments stops being rendered: its state is dropped, and what a
\* handler of it sets later is lost
ChildUnmounted ==
    /\ comments' = <<>>
    /\ newComment' = ""
    /\ uploadedFiles' = <<>>
    /\ cLoading' = FALSE
    /\ cError' = NULL
    /\ effectPending' = FALSE
    /\ sub' = IF sub.pc \in {"auth", "pending"} THEN [sub EXCEPT !.orphaned = TRUE]
              ELSE IdleSub

\* ------------------------------------------------------- TaskComments

\* RichTextEditor onChange
TypeText(t) ==
    /\ PageShown /\ ~effectPending
    /\ newComment' = t
    /\ UNCHANGED <<srvVars, parentVars, comments, uploadedFiles, cLoading, cError,
                   effectPending, sub, stc, load, clock>>

\* RichTextEditor onFilesUploaded
UploadFile ==
    /\ PageShown /\ ~effectPending
    /\ Len(uploadedFiles) < MaxFiles
    /\ uploadedFiles' = Append(uploadedFiles, "f1")
    /\ UNCHANGED <<srvVars, parentVars, comments, newComment, cLoading, cError,
                   effectPending, sub, stc, load, clock>>

\* handleSubmit up to its first await
handleSubmit ==
    /\ PageShown /\ ~effectPending
    /\ ~cLoading
    /\ clock < MaxSubmits
    /\ Len(srvComments) < MaxSubmits + 1
    /\ IF Trim(StripTags(newComment)) = "" /\ Len(uploadedFiles) = 0
       THEN /\ cError' = EmptyComment
            /\ UNCHANGED <<cLoading, sub>>
       ELSE /\ cError' = NULL
            /\ cLoading' = TRUE
            /\ sub' = [IdleSub EXCEPT !.pc = "auth", !.content = newComment,
                                      !.files = uploadedFiles, !.staleTask = task]
    /\ UNCHANGED <<srvVars, parentVars, comments, newComment, uploadedFiles,
                   effectPending, stc, load, clock>>

\* handleSubmit after supabaseBrowser.auth.getUser(): the optimistic comment
\* is added, the form is cleared and addComment is called
handleSubmitApply ==
    /\ sub.pc = "auth"
    /\ clock' = clock + 1
    /\ sub' = [sub EXCEPT !.pc = "pending", !.tempId = -clock',
                          !.before = comments]
    /\ IF sub.orphaned
       THEN UNCHANGED <<comments, newComment, uploadedFiles>>
       ELSE /\ comments' = AddPending(comments, [id |-> -clock', content |-> sub.content,
                                                 files |-> sub.files])
            /\ newComment' = ""
            /\ uploadedFiles' = <<>>
    /\ UNCHANGED <<srvVars, parentVars, cLoading, cError, effectPending, stc, load>>

\* addComment returned { error }
handleSubmitError(error) ==
    /\ sub.pc = "pending"
    /\ sub' = [IdleSub EXCEPT !.pc = "rolledBack", !.tempId = sub.tempId,
                              !.error = error]
    /\ IF sub.orphaned
       THEN UNCHANGED <<comments, newComment, uploadedFiles, cLoading, cError>>
       ELSE /\ comments' = RemovePending(comments, sub.tempId)
            /\ cError' = error
            /\ newComment' = sub.content
            /\ uploadedFiles' = sub.files
            /\ cLoading' = FALSE
    /\ UNCHANGED <<srvVars, parentVars, effectPending, stc, load, clock>>

\* addComment inserted the row and returned { data }
handleSubmitData ==
    /\ sub.pc = "pending"
    /\ AddCommentValid(sub.content, sub.files)
    /\ LET data == InsertedRow(sub.content, sub.files)
       IN  /\ srvComments' = Append(srvComments, data)
           /\ sub' = [IdleSub EXCEPT !.pc = "confirmed", !.tempId = sub.tempId,
                                     !.data = data, !.notified = sub.notified + 1]
           /\ task' = OnCommentAdded(sub.staleTask, data)
           /\ IF sub.orphaned
              THEN UNCHANGED <<comments, cLoading>>
              ELSE /\ comments' = ReplacePending(comments, sub.tempId, data)
                   /\ cLoading' = FALSE
           /\ effectPending' = (PageShown /\ task'.comments # task.comments)
    /\ UNCHANGED <<srvStatus, pageLoading, pageError, updatingStatus, newComment,
                   uploadedFiles, cError, stc, load, clock>>

\* the addComment call itself failed (network, timeout): the promise rejects
\* and handleSubmit has no catch; the row may or may not have been inserted
handleSubmitRejected(inserted) ==
    /\ sub.pc = "pending"
    /\ sub' = [IdleSub EXCEPT !.pc = "threw", !.tempId = sub.tempId]
    /\ srvComments' = IF inserted
                      THEN Append(srvComments, InsertedRow(sub.content, sub.files))
                      ELSE srvComments
    /\ UNCHANGED <<srvStatus, parentVars, childVars, stc, load, clock>>

\* useEffect(() => setComments(initialComments), [initialComments])
commentsEffect ==
    /\ effectPending
    /\ effectPending' = FALSE
    /\ comments' = task.comments
    /\ UNCHANGED <<srvVars, parentVars, newComment, uploadedFiles, cLoading, cError,
                   sub, stc, load, clock>>

\* ----------------------------------------------------------- TaskPage

\* loadTaskDetails up to its await (called by onTimeAdded, onEntryDeleted and
\* by handleStatusChange after a successful write)
loadTaskDetails(by) ==
    /\ pageLoading' = TRUE
    /\ pageError' = NULL
    /\ load' = [pc |-> "sent", by |-> by]
    /\ ChildUnmounted

\* a time entry was added or deleted: the page reloads the task
reloadTask ==
    /\ PageShown /\ ~effectPending
    /\ loadTaskDetails("time")
    /\ UNCHANGED <<srvVars, task, updatingStatus, stc, clock>>

\* getTaskDetails returned { data }: setTask(result.data); TaskComments is
\* rendered again, starting from the comments of the task
loadTaskDetailsData ==
    /\ load.pc = "sent"
    /\ load' = IdleLoad
    /\ task' = [status |-> srvStatus, comments |-> srvComments]
    /\ pageLoading' = FALSE
    /\ comments' = IF Rendered(FALSE, pageError, task') THEN task'.comments ELSE <<>>
    /\ IF load.by = "status"
       THEN /\ updatingStatus' = FALSE
            /\ stc' = [IdleStc EXCEPT !.pc = "reloaded"]
       ELSE UNCHANGED <<updatingStatus, stc>>
    /\ UNCHANGED <<srvVars, pageError, newComment, uploadedFiles, cLoading, cError,
                   effectPending, sub, clock>>

\* getTaskDetails returned { error }
loadTaskDetailsError(error) ==
    /\ load.pc = "sent"
    /\ load' = IdleLoad
    /\ pageError' = error
    /\ pageLoading' = FALSE
    /\ IF load.by = "status"
       THEN /\ updatingStatus' = FALSE
            /\ stc' = [IdleStc EXCEPT !.pc = "reloadFailed"]
       ELSE UNCHANGED <<updatingStatus, stc>>
    /\ UNCHANGED <<srvVars, task, childVars, sub, clock>>

\* the getTaskDetails call itself failed: loading stays true
loadTaskDetailsRejected ==
    /\ load.pc = "sent"
    /\ load' = [load EXCEPT !.pc = "threw"]
    /\ UNCHANGED <<srvVars, parentVars, childVars, sub, stc, clock>>

\* handleStatusChange up to its await: the select's onChange with another
\* value than the one shown
handleStatusChange(newStatus) ==
    /\ PageShown /\ ~effectPending
    /\ ~updatingStatus
    /\ newStatus # task.status
    /\ stc' = [pc |-> "sent", oldStatus |-> task.status, newStatus |-> newStatus,
               staleTask |-> task]
    /\ task' = [task EXCEPT !.status = newStatus]
    /\ updatingStatus' = TRUE
    /\ UNCHANGED <<srvVars, pageLoading, pageError, childVars, sub, load, clock>>

RollbackStatusRederived(t, oldStatus) == [t EXCEPT !.status = srvStatus]
\* setTask({ ...task, status: oldStatus }), task and oldStatus being those
\* of the render handleStatusChange was called in
RollbackStatus(t, oldStatus) ==
    IF t # NoTask /\ oldStatus # "none" THEN [t EXCEPT !.status = oldStatus] ELSE task

\* updateTaskStatus returned { error }: the error page replaces the task view
handleStatusChangeError(error) ==
    /\ stc.pc = "sent"
    /\ stc' = [stc EXCEPT !.pc = "failed", !.staleTask = NoTask]
    /\ task' = RollbackStatus(stc.staleTask, stc.oldStatus)
    /\ pageError' = error
    /\ updatingStatus' = FALSE
    /\ ChildUnmounted
    /\ UNCHANGED <<srvVars, pageLoading, load, clock>>

\* updateTaskStatus wrote the status and returned { data }: loadTaskDetails
handleStatusChangeData ==
    /\ stc.pc = "sent"
    /\ stc' = [stc EXCEPT !.pc = "loading", !.staleTask = NoTask]
    /\ srvStatus' = stc.newStatus
    /\ loadTaskDetails("status")
    /\ UNCHANGED <<srvComments, task, updatingStatus, clock>>

\* the updateTaskStatus call itself failed; the write may have been applied
handleStatusChangeRejected(written) ==
    /\ stc.pc = "sent"
    /\ stc' = [IdleStc EXCEPT !.pc = "threw"]
    /\ srvStatus' = IF written THEN stc.newStatus ELSE srvStatus
    /\ UNCHANGED <<srvComments, parentVars, childVars, sub, load, clock>>

\* another member changes the status of the task in the store
otherMemberSetsStatus(status) ==
    /\ status # srvStatus
    /\ srvStatus' = status
    /\ UNCHANGED <<srvComments, parentVars, childVars, sub, stc, load, clock>>

\* no handler of the page is between two of its steps
Quiet ==
    /\ sub.pc \notin {"auth", "pending"}
    /\ stc.pc \notin {"sent", "loading"}
    /\ load.pc # "sent"

\* the page has been opened: useEffect has called loadTaskDetails
PageInit ==
    /\ srvStatus = "todo"
    /\ srvComments \in {<<>>, <<[id |-> 1, content |-> "first", files |-> <<>>]>>}
    /\ task = NoTask
    /\ pageLoading = TRUE
    /\ pageError = NULL
    /\ updatingStatus = FALSE
    /\ comments = <<>>
    /\ newComment = ""
    /\ uploadedFiles = <<>>
    /\ cLoading = FALSE
    /\ cError = NULL
    /\ effectPending = FALSE
    /\ sub = IdleSub
    /\ stc = IdleStc
    /\ load = [pc |-> "sent", by |-> "mount"]
    /\ clock = 0
    /\ commentResult = "none"

PageIdle ==
    /\ PageInit
    /\ srvComments = <<>>

\* ========================================================= all-tasks page

\* a calendar date is the number of its day; no date (null or '') is NoDate
NoDate == 0
NoText == <<>>

\* the rows getAllTasks can return: texts are sequences of characters, an
\* assignee's full_name is the rank of the name ('' for no assignee is 0),
\* created_at the time in ms
TaskPool ==
    {[id |-> 1, title |-> <<"A", "b">>, description |-> NoText, status |-> "todo",
      priority |-> "urgent", due_date |-> 10, assignee_id |-> 1, created_at |-> 1],
     [id |-> 2, title |-> <<"b", "a">>, description |-> <<"A">>, status |-> "todo",
      priority |-> NULL, due_date |-> NoDate, assignee_id |-> NoUser, created_at |-> 2],
     [id |-> 3, title |-> <<"b">>, description |-> NoText, status |-> "complete",
      priority |-> "low", due_date |-> 20, assignee_id |-> 2, created_at |-> 3],
     [id |-> 4, title |-> <<"a">>, description |-> NoText, status |-> "todo",
      priority |-> "high", due_date |-> 15, assignee_id |-> 1, created_at |-> 4],
     [id |-> 5, title |-> <<"A", "b">>, description |-> <<"b">>, status |-> "complete",
      priority |-> "normal", due_date |-> 15, assignee_id |-> 2, created_at |-> 4]}

\* the lists of up to MaxList different rows
TaskLists ==
    {ts \in UNION {[1..n -> TaskPool] : n \in 0..MaxList} :
        \A i, j \in DOMAIN ts : i # j => ts[i].id # ts[j].id}

\* String.prototype.toLowerCase
ToLowerCase(text) ==
    [i \in DOMAIN text |-> IF text[i] = "A" THEN "a"
                           ELSE IF text[i] = "B" THEN "b" ELSE text[i]]

\* String.prototype.includes
Includes(text, query) ==
    \E k \in 0..(Len(text) - Len(query)) :
        \A j \in 1..Len(query) : text[k + j] = query[j]

\* String.prototype.trim
RECURSIVE TrimText(_)
TrimText(text) ==
    IF text = <<>> THEN text
    ELSE IF Head(text) = " " THEN TrimText(Tail(text))
    ELSE IF text[Len(text)] = " " THEN TrimText(SubSeq(text, 1, Len(text) - 1))
    ELSE text

\* the search filter
MatchesSearch(t, search) ==
    TrimText(search) # <<>> =>
        \/ Includes(ToLowerCase(t.title), ToLowerCase(search))
        \/ (t.description # NoText /\ Includes(ToLowerCase(t.description), ToLowerCase(search)))

\* task.due_date && task.due_date >= dueDateFrom
DueOnOrAfter(t, from) == from # NoDate => (t.due_date # NoDate /\ t.due_date >= from)

DueBefore(t, to) == to # NoDate => (t.due_date # NoDate /\ t.due_date < to)
\* task.due_date && task.due_date <= dueDateTo
DueOnOrBefore(t, to) == to # NoDate => (t.due_date # NoDate /\ t.due_date <= to)

StatusIsAny(t, status) == TRUE
\* task.status === statusFilter
StatusIs(t, status) == status # "" => t.status = status

\* the six filters of applyFilters, each applied if its value is set
PassesFilters(t, search, status, assignee, priority, from, to) ==
    /\ MatchesSearch(t, search)
    /\ StatusIs(t, status)
    /\ assignee # NoUser => t.assignee_id = assignee
    /\ priority # "" => t.priority = priority
    /\ DueOnOrAfter(t, from)
    /\ DueOnOrBefore(t, to)

PriorityOrderUnsetNormal(priority) ==
    CASE priority = "urgent" -> 4 [] priority = "high" -> 3
      [] priority = "low" -> 1 [] OTHER -> 2
\* priorityOrder[priority] || 0
PriorityOrder(priority) ==
    CASE priority = "urgent" -> 4 [] priority = "high" -> 3
      [] priority = "normal" -> 2 [] priority = "low" -> 1 [] OTHER -> 0

\* aValue / bValue of the comparator
SortValue(t, sortBy) ==
    CASE sortBy = "priority" -> PriorityOrder(t.priority)
      [] sortBy = "due_date" -> t.due_date
      [] sortBy = "assignee" -> t.assignee_id
      [] OTHER -> t.created_at

\* the comparator: a positive value puts a after b
Compare(a, b, sortBy, sortOrder) ==
    LET aValue == SortValue(a, sortBy)
        bValue == SortValue(b, sortBy)
    IN  IF sortOrder = "asc"
        THEN IF aValue > bValue THEN 1 ELSE IF aValue < bValue THEN -1 ELSE 0
        ELSE IF aValue < bValue THEN 1 ELSE IF aValue > bValue THEN -1 ELSE 0

\* Array.prototype.sort, which is stable: each row goes behind the rows that
\* the comparator does not put after it
RECURSIVE SortTasks(_, _, _)
SortTasks(ts, sortBy, sortOrder) ==
    IF ts = <<>> THEN ts
    ELSE LET n == Len(ts)
             done == SortTasks(SubSeq(ts, 1, n - 1), sortBy, sortOrder)
             t == ts[n]
             keep == {i \in DOMAIN done : Compare(done[i], t, sortBy, sortOrder) <= 0}
             k == IF \A i \in DOMAIN done : i \in keep THEN Len(done)
                  ELSE (CHOOSE i \in DOMAIN done :
                           i \notin keep /\ \A j \in 1..(i - 1) : j \in keep) - 1
         IN  SubSeq(done, 1, k) \o <<t>> \o SubSeq(done, k + 1, Len(done))

\* applyFilters: filter, then sort
applyFilters(ts, search, status, assignee, priority, from, to, sortBy, sortOrder) ==
    LET Passes(t) == PassesFilters(t, search, status, assignee, priority, from, to)
    IN  SortTasks(SelectSeq(ts, Passes), sortBy, sortOrder)

\* useEffect(() => applyFilters(), [tasks, searchQuery, ...]) after a setter
Refiltered ==
    filteredTasks' = applyFilters(allTasks', searchQuery', statusFilter', assigneeFilter',
                                  priorityFilter', dueDateFrom', dueDateTo',
                                  sort_by', sort_order')

setSearchQuery(value) ==
    /\ searchQuery' = value
    /\ UNCHANGED <<allTasks, statusFilter, assigneeFilter, priorityFilter, dueDateFrom,
                   dueDateTo, sort_by, sort_order>>
    /\ Refiltered

setStatusFilter(value) ==
    /\ statusFilter' = value
    /\ UNCHANGED <<allTasks, searchQuery, assigneeFilter, priorityFilter, dueDateFrom,
                   dueDateTo, sort_by, sort_order>>
    /\ Refiltered

setAssigneeFilter(value) ==
    /\ assigneeFilter' = value
    /\ UNCHANGED <<allTasks, searchQuery, statusFilter, priorityFilter, dueDateFrom,
                   dueDateTo, sort_by, sort_order>>
    /\ Refiltered

setPriorityFilter(value) ==
    /\ priorityFilter' = value
    /\ UNCHANGED <<allTasks, searchQuery, statusFilter, assigneeFilter, dueDateFrom,
                   dueDateTo, sort_by, sort_order>>
    /\ Refiltered

setDueDateFrom(value) ==
    /\ dueDateFrom' = value
    /\ UNCHANGED <<allTasks, searchQuery, statusFilter, assigneeFilter, priorityFilter,
                   dueDateTo, sort_by, sort_order>>
    /\ Refiltered

setDueDateTo(value) ==
    /\ dueDateTo' = value
    /\ UNCHANGED <<allTasks, searchQuery, statusFilter, assigneeFilter, priorityFilter,
                   dueDateFrom, sort_by, sort_order>>
    /\ Refiltered

\* setFilters({ ...filters, sort_by })
setSortBy(value) ==
    /\ sort_by' = value
    /\ UNCHANGED <<allTasks, searchQuery, statusFilter, assigneeFilter, priorityFilter,
                   dueDateFrom, dueDateTo, sort_order>>
    /\ Refiltered

\* setFilters({ ...filters, sort_order })
setSortOrder(value) ==
    /\ sort_order' = value
    /\ UNCHANGED <<allTasks, searchQuery, statusFilter, assigneeFilter, priorityFilter,
                   dueDateFrom, dueDateTo, sort_by>>
    /\ Refiltered

\* "Clear all filters"
clearAllFilters ==
    /\ searchQuery' = NoText
    /\ statusFilter' = ""
    /\ assigneeFilter' = NoUser
    /\ priorityFilter' = ""
    /\ dueDateFrom' = NoDate
    /\ dueDateTo' = NoDate
    /\ UNCHANGED <<allTasks, sort_by, sort_order>>
    /\ Refiltered

\* the filters of a page that was just opened
FiltersInit ==
    /\ searchQuery = NoText
    /\ statusFilter = ""
    /\ assigneeFilter = NoUser
    /\ priorityFilter = ""
    /\ dueDateFrom = NoDate
    /\ dueDateTo = NoDate
    /\ sort_by = "created_at"
    /\ sort_order = "desc"

IdleBulk == [pc |-> "idle", ids |-> {}, status |-> UNDEF, assignee_id |-> UndefUser]
NoCsv == <<>>

\* nothing selected, no bulk action, no alert and no export yet
SelIdle ==
    /\ selectedTasks = {}
    /\ bulkActionLoading = FALSE
    /\ listLoading = FALSE
    /\ bulk = IdleBulk
    /\ alertShown = NULL
    /\ csvContent = NoCsv

\* loadTasks has set the tasks and the effect has run
ListInit ==
    /\ allTasks \in TaskLists
    /\ FiltersInit
    /\ filteredTasks = SortTasks(allTasks, "created_at", "desc")
    /\ SelIdle

ListIdle ==
    /\ allTasks = <<>>
    /\ FiltersInit
    /\ filteredTasks = <<>>
    /\ SelIdle

\* ------------------------------------------------- selection and bulk actions

\* filteredTasks.map((t) => t.id)
DisplayedIds(ts) == {ts[i].id : i \in DOMAIN ts}

\* checked={filteredTasks.length > 0 && selectedTasks.size === filteredTasks.length}
SelectAllChecked ==
    Len(filteredTasks) > 0 /\ Cardinality(selectedTasks) = Len(filteredTasks)

\* the header checkbox is clicked: e.target.checked is the opposite of what
\* was rendered
handleSelectAll ==
    /\ ~listLoading
    /\ selectedTasks' = IF ~SelectAllChecked THEN DisplayedIds(filteredTasks) ELSE {}
    /\ UNCHANGED <<allTasks, filteredTasks, filterVars, bulkActionLoading, listLoading,
                   bulk, alertShown, csvContent>>

\* the checkbox of a displayed row is clicked
handleSelectTask(taskId) ==
    /\ ~listLoading
    /\ taskId \in DisplayedIds(filteredTasks)
    /\ selectedTasks' = IF taskId \in selectedTasks THEN selectedTasks \ {taskId}
                        ELSE selectedTasks \cup {taskId}
    /\ UNCHANGED <<allTasks, filteredTasks, filterVars, bulkActionLoading, listLoading,
                   bulk, alertShown, csvContent>>

\* the rows of the store in the order of their ids
RECURSIVE RowsById(_)
RowsById(tk) ==
    IF DOMAIN tk = {} THEN <<>>
    ELSE LET last == CHOOSE t \in DOMAIN tk : \A o \in DOMAIN tk : o <= t
         IN  Append(RowsById([t \in DOMAIN tk \ {last} |-> tk[t]]), tk[last])

\* getAllTasks({ sort_by: 'created_at', sort_order: 'desc' })
getAllTasks(tk) == SortTasks(RowsById(tk), "created_at", "desc")

\* handleBulkStatusChange / handleBulkAssign up to the await of
\* bulkUpdateTasks; the selects are disabled while bulkActionLoading
StartBulk(status, assignee_id) ==
    /\ ~listLoading /\ ~bulkActionLoading
    /\ IF selectedTasks = {}
       THEN UNCHANGED <<bulkActionLoading, bulk>>
       ELSE /\ bulkActionLoading' = TRUE
            /\ bulk' = [pc |-> "sent", ids |-> selectedTasks, status |-> status,
                        assignee_id |-> assignee_id]
    /\ UNCHANGED <<allTasks, filteredTasks, filterVars, selectedTasks, listLoading,
                   alertShown, csvContent>>

handleBulkStatusChange(newStatus) == StartBulk(newStatus, UndefUser)

handleBulkAssign(newAssigneeId) == StartBulk(UNDEF, newAssigneeId)

BulkFailedNever(result) == FALSE
\* if (result.error)
BulkFailed(result) == result # Success

\* bulkUpdateTasks runs and returns: on an error the alert, otherwise the
\* selection is emptied and loadTasks is called
bulkUpdateReturned(actor, storeOk) ==
    /\ bulk.pc = "sent"
    /\ bulkUpdateTasks(actor, bulk.ids, bulk.status, bulk.assignee_id, storeOk)
    /\ IF BulkFailed(taskResult')
       THEN /\ alertShown' = taskResult'
            /\ bulkActionLoading' = FALSE
            /\ bulk' = IdleBulk
            /\ UNCHANGED <<selectedTasks, listLoading>>
       ELSE /\ selectedTasks' = {}
            /\ listLoading' = TRUE
            /\ bulk' = [bulk EXCEPT !.pc = "loading"]
            /\ UNCHANGED <<alertShown, bulkActionLoading>>
    /\ UNCHANGED <<allTasks, filteredTasks, filterVars, csvContent>>

\* loadTasks after the bulk update: getAllTasks returned { data }
loadTasksData ==
    /\ bulk.pc = "loading"
    /\ allTasks' = getAllTasks(tasks)
    /\ UNCHANGED filterVars
    /\ Refiltered
    /\ listLoading' = FALSE
    /\ bulkActionLoading' = FALSE
    /\ bulk' = IdleBulk
    /\ UNCHANGED <<selectedTasks, alertShown, csvContent, taskVars>>

\* loadTasks after the bulk update: getAllTasks returned { error }
loadTasksError ==
    /\ bulk.pc = "loading"
    /\ listLoading' = FALSE
    /\ bulkActionLoading' = FALSE
    /\ bulk' = IdleBulk
    /\ UNCHANGED <<allTasks, filteredTasks, filterVars, selectedTasks, alertShown,
                   csvContent, taskVars>>

\* the page is open on the tasks of the store, some of tasks 1, 3 and 4
SelectInit ==
    /\ ListInit
    /\ allTasks = SortTasks(allTasks, "created_at", "desc")
    /\ DisplayedIds(allTasks) \subseteq {1, 3, 4}
    /\ tasks = [id \in DisplayedIds(allTasks) |->
                  CHOOSE t \in TaskPool : t.id = id]
    /\ taskCall = NoCall
    /\ taskResult = "none"

\* -------------------------------------------------------------- exportToCSV

\* a text is the sequence of its characters; a word that holds no quote,
\* comma or line break stands as one character
Quote == "\""
Comma == ","
LineBreak == "\n"

\* formatTime(minutes)
formatTime(minutes) ==
    LET hours == minutes \div 60
        mins == minutes % 60
    IN  IF hours > 0 /\ mins > 0 THEN <<ToString(hours), "h", " ", ToString(mins), "m">>
        ELSE IF hours > 0 THEN <<ToString(hours), "h">>
        ELSE <<ToString(mins), "m">>

\* new Date(value).toLocaleDateString(): the day, in the form of the locale
toLocaleDateString(date) == <<"day", ToString(date)>>

\* the cells of the row of a task
ExportRow(t) ==
    <<t.title,
      <<t.status>>,
      IF t.assignee_id # NoUser THEN <<"name", ToString(t.assignee_id)>> ELSE <<"Unassigned">>,
      IF t.priority # NULL THEN <<t.priority>> ELSE <<"normal">>,
      IF t.due_date # NoDate THEN toLocaleDateString(t.due_date) ELSE <<>>,
      IF t.estimated_time_minutes # 0 THEN formatTime(t.estimated_time_minutes) ELSE <<>>,
      IF t.total_tracked_minutes # 0 THEN formatTime(t.total_tracked_minutes)
      ELSE <<"0", "h">>,
      <<ToString(t.comment_count)>>,
      toLocaleDateString(t.created_at)>>

ExportHeaders ==
    <<<<"Title">>, <<"Status">>, <<"Assignee">>, <<"Priority">>, <<"Due Date">>,
      <<"Estimated Time">>, <<"Tracked Time">>, <<"Comments">>, <<"Created At">>>>

\* Array.prototype.join
RECURSIVE Join(_, _)
Join(texts, separator) ==
    IF texts = <<>> THEN <<>>
    ELSE IF Len(texts) = 1 THEN texts[1]
    ELSE texts[1] \o separator \o Join(Tail(texts), separator)

\* `"${cell}"`
InQuotes(cell) == <<Quote>> \o cell \o <<Quote>>

\* headers.join(",") + "\n" + rows.map(row => row.map(...).join(",")).join("\n")
CsvText(rows) ==
    Join(ExportHeaders, <<Comma>>) \o <<LineBreak>>
    \o Join([i \in DOMAIN rows |->
               Join([j \in DOMAIN rows[i] |-> InQuotes(rows[i][j])], <<Comma>>)],
            <<LineBreak>>)

\* exportToCSV: the rows of filteredTasks, written as text
exportToCSV ==
    /\ ~listLoading
    /\ csvContent' = CsvText([i \in DOMAIN filteredTasks |-> ExportRow(filteredTasks[i])])
    /\ UNCHANGED <<allTasks, filteredTasks, filterVars, selectedTasks, bulkActionLoading,
                   listLoading, bulk, alertShown>>

\* rows with the fields of the export; the title of task 2 holds quotes and
\* a comma
ExportPool ==
    {[id |-> 1, title |-> <<"A", "b">>, description |-> NoText, status |-> "todo",
      priority |-> "urgent", due_date |-> 10, assignee_id |-> 1, created_at |-> 1,
      estimated_time_minutes |-> 90, total_tracked_minutes |-> 0, comment_count |-> 0],
     [id |-> 2, title |-> <<"a", Quote, Comma, Quote, "b">>, description |-> NoText,
      status |-> "todo", priority |-> NULL, due_date |-> NoDate, assignee_id |-> NoUser,
      created_at |-> 2, estimated_time_minutes |-> 0, total_tracked_minutes |-> 60,
      comment_count |-> 2],
     [id |-> 3, title |-> <<"b">>, description |-> NoText, status |-> "complete",
      priority |-> "low", due_date |-> 20, assignee_id |-> 2, created_at |-> 3,
      estimated_time_minutes |-> 45, total_tracked_minutes |-> 125, comment_count |-> 1]}

\* loadTasks has set some of these rows
ExportInit ==
    /\ allTasks \in {ts \in UNION {[1..n -> ExportPool] : n \in 0..MaxExport} :
                       \A i, j \in DOMAIN ts : i # j => ts[i].id # ts[j].id}
    /\ FiltersInit
    /\ filteredTasks = SortTasks(allTasks, "created_at", "desc")
    /\ SelIdle

TeamInit ==
    /\ team_members \in [Users -> {"admin", "member", NULL}]
    /\ AdminCount(team_members) >= 1
    /\ teamCall = [op |-> "none", actor |-> NoUser, userId |-> NoUser, newRole |-> NULL]
    /\ teamResult = "none"
    /\ formerAdmins = {}
    /\ teamOps = [u \in Users |-> NoTeamOp]
    /\ statusOp = NoStatusOp

TeamIdle ==
    /\ team_members = [u \in Users |-> IF u = 1 THEN "admin" ELSE "member"]
    /\ teamCall = [op |-> "none", actor |-> NoUser, userId |-> NoUser, newRole |-> NULL]
    /\ teamResult = "none"
    /\ formerAdmins = {}
    /\ teamOps = [u \in Users |-> NoTeamOp]
    /\ statusOp = NoStatusOp

TeamNext ==
    \/ \E c \in Callers, userId \in Users, newRole \in {"admin", "member"} :
          UpdateMemberRole(c[1], userId, newRole, c[2]) /\ UNCHANGED <<taskVars, pageVars, listVars, ownedVars, projVars>>
    \/ \E c \in Callers, userId \in Users :
          RemoveMember(c[1], userId, c[2]) /\ UNCHANGED <<taskVars, pageVars, listVars, ownedVars, projVars>>

InitTeam == TeamInit /\ TaskIdle /\ PageIdle /\ ListIdle /\ ProjIdle

SpecTeam == InitTeam /\ [][TeamNext]_vars

\* the calls of the users, interleaved at the store operations
TeamRaceNext ==
    \/ \E actor \in Users, userId \in Users, newRole \in {"admin", "member"} :
          TeamCallStart(actor, "updateMemberRole", userId, newRole)
          /\ UNCHANGED <<taskVars, pageVars, listVars, ownedVars, projVars>>
    \/ \E actor \in Users, userId \in Users :
          TeamCallStart(actor, "removeMember", userId, NULL)
          /\ UNCHANGED <<taskVars, pageVars, listVars, ownedVars, projVars>>
    \/ \E actor \in Users :
          TeamRoleCheck(actor) /\ UNCHANGED <<taskVars, pageVars, listVars, ownedVars, projVars>>
    \/ \E actor \in Users :
          TeamTargetRead(actor) /\ UNCHANGED <<taskVars, pageVars, listVars, ownedVars, projVars>>
    \/ \E actor \in Users :
          TeamAdminCount(actor) /\ UNCHANGED <<taskVars, pageVars, listVars, ownedVars, projVars>>
    \/ \E actor \in Users, storeOk \in BOOLEAN :
          TeamWrite(actor, storeOk) /\ UNCHANGED <<taskVars, pageVars, listVars, ownedVars, projVars>>

SpecTeamRace == InitTeam /\ [][TeamRaceNext]_vars

\* the updates the callers send: handleBulkStatusChange {status},
\* handleBulkAssign {assignee_id}; and one with both
BulkUpdates ==
    {[status |-> st, assignee_id |-> UndefUser] : st \in StatusInputs}
    \cup {[status |-> UNDEF, assignee_id |-> a] : a \in Users \cup {NoUser}}
    \cup {[status |-> "complete", assignee_id |-> 1]}

\* UpdateTaskInput objects: a description, an assignee ('' clears it), or both
UpdateInputs ==
    {[description |-> d, assignee_id |-> UndefUser] : d \in {"", "d1"}}
    \cup {[description |-> UNDEF, assignee_id |-> a] : a \in Users \cup {NoUser}}
    \cup {[description |-> "d1", assignee_id |-> 1]}

TaskNext ==
    \/ \E c \in Callers, description \in {"", "d1"}, assignee_id \in Users :
          createTask(c[1], description, assignee_id, NoProject, c[2]) /\ UNCHANGED <<teamVars, pageVars, listVars, ownedVars, projVars>>
    \/ \E c \in Callers, taskId \in TaskIds, status \in StatusInputs :
          updateTaskStatus(c[1], taskId, status, c[2]) /\ UNCHANGED <<teamVars, pageVars, listVars, ownedVars, projVars>>
    \/ \E c \in Callers, taskId \in TaskIds, description \in {"", "d1"} :
          updateTaskDescription(c[1], taskId, description, c[2])
          /\ UNCHANGED <<teamVars, pageVars, listVars, ownedVars, projVars>>
    \/ \E c \in Callers, taskId \in TaskIds, input \in UpdateInputs :
          updateTask(c[1], taskId, input.description, input.assignee_id, c[2])
          /\ UNCHANGED <<teamVars, pageVars, listVars, ownedVars, projVars>>
    \/ \E c \in Callers, taskId \in TaskIds :
          deleteTask(c[1], taskId, c[2]) /\ UNCHANGED <<teamVars, pageVars, listVars, projVars>>
    \/ \E c \in Callers, taskIds \in SUBSET TaskIds \ {{}}, updates \in BulkUpdates :
          bulkUpdateTasks(c[1], taskIds, updates.status, updates.assignee_id, c[2])
          /\ UNCHANGED <<teamVars, pageVars, listVars, ownedVars, projVars>>

InitTasks == TeamIdle /\ TaskIdle /\ PageIdle /\ ListIdle /\ ProjIdle

SpecTasks == InitTasks /\ [][TaskNext]_vars

\* updateTaskStatus interleaved with the calls that reassign a task
StatusRaceNext ==
    \/ \E actor \in Users, assignee_id \in Users :
          createTask(actor, "d1", assignee_id, NoProject, TRUE)
          /\ UNCHANGED <<teamVars, pageVars, listVars, ownedVars, projVars>>
    \/ \E actor \in Users, taskId \in TaskIds, status \in StatusInputs :
          updateTaskStatusStart(actor, taskId, status)
          /\ UNCHANGED <<pageVars, listVars, ownedVars, projVars>>
    \/ updateTaskStatusRead /\ UNCHANGED <<pageVars, listVars, ownedVars, projVars>>
    \/ \E storeOk \in BOOLEAN :
          updateTaskStatusWrite(storeOk) /\ UNCHANGED <<pageVars, listVars, ownedVars, projVars>>
    \/ \E actor \in Users, taskId \in TaskIds, assignee_id \in Users \cup {NoUser} :
          updateTask(actor, taskId, UNDEF, assignee_id, TRUE)
          /\ UNCHANGED <<teamVars, pageVars, listVars, ownedVars, projVars>>
    \/ \E actor \in Users, taskId \in TaskIds, assignee_id \in Users \cup {NoUser} :
          bulkUpdateTasks(actor, {taskId}, UNDEF, assignee_id, TRUE)
          /\ UNCHANGED <<teamVars, pageVars, listVars, ownedVars, projVars>>

SpecStatusRace == InitTasks /\ [][StatusRaceNext]_vars

\* tasks are created, copied and updated, none is deleted
CreatorNext ==
    \/ \E c \in Callers, assignee_id \in Users :
          createTask(c[1], "d1", assignee_id, NoProject, c[2])
          /\ UNCHANGED <<teamVars, pageVars, listVars, ownedVars, projVars>>
    \/ \E c \in Callers, taskId \in TaskIds :
          duplicateTask(c[1], taskId, c[2])
          /\ UNCHANGED <<teamVars, pageVars, listVars, ownedVars, projVars>>
    \/ \E c \in Callers, taskId \in TaskIds :
          convertTaskToTemplate(c[1], taskId, c[2])
          /\ UNCHANGED <<teamVars, pageVars, listVars, ownedVars, projVars>>
    \/ \E c \in Callers, taskId \in TaskIds, status \in StatusInputs :
          updateTaskStatus(c[1], taskId, status, c[2])
          /\ UNCHANGED <<teamVars, pageVars, listVars, ownedVars, projVars>>
    \/ \E c \in Callers, taskId \in TaskIds, description \in {"", "d1"} :
          updateTaskDescription(c[1], taskId, description, c[2])
          /\ UNCHANGED <<teamVars, pageVars, listVars, ownedVars, projVars>>
    \/ \E c \in Callers, taskId \in TaskIds, input \in UpdateInputs :
          updateTask(c[1], taskId, input.description, input.assignee_id, c[2])
          /\ UNCHANGED <<teamVars, pageVars, listVars, ownedVars, projVars>>
    \/ \E c \in Callers, taskIds \in SUBSET TaskIds \ {{}}, updates \in BulkUpdates :
          bulkUpdateTasks(c[1], taskIds, updates.status, updates.assignee_id, c[2])
          /\ UNCHANGED <<teamVars, pageVars, listVars, ownedVars, projVars>>

SpecCreator == InitTasks /\ [][CreatorNext]_vars

\* the handlers of the page, one at a time: a handler starts only when none
\* is between two of its steps
PageNext ==
    \/ \E t \in Texts \ {""} : TypeText(t) /\ UNCHANGED <<teamVars, taskVars, listVars, ownedVars, projVars, commentResult>>
    \/ UploadFile /\ UNCHANGED <<teamVars, taskVars, listVars, ownedVars, projVars, commentResult>>
    \/ Quiet /\ handleSubmit /\ UNCHANGED <<teamVars, taskVars, listVars, ownedVars, projVars, commentResult>>
    \/ handleSubmitApply /\ UNCHANGED <<teamVars, taskVars, listVars, ownedVars, projVars, commentResult>>
    \/ \E error \in {NotAuthenticated, StoreFailure} :
          handleSubmitError(error) /\ UNCHANGED <<teamVars, taskVars, listVars, ownedVars, projVars, commentResult>>
    \/ handleSubmitData /\ UNCHANGED <<teamVars, taskVars, listVars, ownedVars, projVars, commentResult>>
    \/ \E inserted \in BOOLEAN :
          handleSubmitRejected(inserted) /\ UNCHANGED <<teamVars, taskVars, listVars, ownedVars, projVars, commentResult>>
    \/ commentsEffect /\ UNCHANGED <<teamVars, taskVars, listVars, ownedVars, projVars, commentResult>>
    \/ Quiet /\ reloadTask /\ UNCHANGED <<teamVars, taskVars, listVars, ownedVars, projVars, commentResult>>
    \/ loadTaskDetailsData /\ UNCHANGED <<teamVars, taskVars, listVars, ownedVars, projVars, commentResult>>
    \/ loadTaskDetailsError(StoreFailure) /\ UNCHANGED <<teamVars, taskVars, listVars, ownedVars, projVars, commentResult>>
    \/ loadTaskDetailsRejected /\ UNCHANGED <<teamVars, taskVars, listVars, ownedVars, projVars, commentResult>>
    \/ \E newStatus \in StatusInputs :
          Quiet /\ handleStatusChange(newStatus) /\ UNCHANGED <<teamVars, taskVars, listVars, ownedVars, projVars, commentResult>>
    \/ \E error \in {NotAuthorizedUpdate, StoreFailure} :
          handleStatusChangeError(error) /\ UNCHANGED <<teamVars, taskVars, listVars, ownedVars, projVars, commentResult>>
    \/ handleStatusChangeData /\ UNCHANGED <<teamVars, taskVars, listVars, ownedVars, projVars, commentResult>>
    \/ \E written \in BOOLEAN :
          handleStatusChangeRejected(written) /\ UNCHANGED <<teamVars, taskVars, listVars, ownedVars, projVars, commentResult>>
    \/ otherMemberSetsStatus("in_review") /\ UNCHANGED <<teamVars, taskVars, listVars, ownedVars, projVars, commentResult>>

\* the all-tasks page's bulk actions on tasks that are created and deleted
BulkNext ==
    \/ \E c \in Callers, description \in {"", "d1"}, assignee_id \in Users :
          createTask(c[1], description, assignee_id, NoProject, c[2]) /\ UNCHANGED <<teamVars, pageVars, listVars, ownedVars, projVars>>
    \/ \E c \in Callers, taskId \in TaskIds :
          deleteTask(c[1], taskId, c[2]) /\ UNCHANGED <<teamVars, pageVars, listVars, projVars>>
    \/ \E c \in Callers, taskIds \in SUBSET TaskIds \ {{}}, updates \in BulkUpdates :
          bulkUpdateTasks(c[1], taskIds, updates.status, updates.assignee_id, c[2])
          /\ UNCHANGED <<teamVars, pageVars, listVars, ownedVars, projVars>>

SpecBulk == InitTasks /\ [][BulkNext]_vars

ListNext ==
    \/ \E value \in {NoText, <<" ">>, <<"A">>, <<"b", "a">>} :
          setSearchQuery(value) /\ UNCHANGED <<teamVars, taskVars, pageVars, ownedVars, projVars, selVars>>
    \/ \E value \in {"", "todo"} :
          setStatusFilter(value) /\ UNCHANGED <<teamVars, taskVars, pageVars, ownedVars, projVars, selVars>>
    \/ \E value \in {NoUser, 1} :
          setAssigneeFilter(value) /\ UNCHANGED <<teamVars, taskVars, pageVars, ownedVars, projVars, selVars>>
    \/ \E value \in {"", "high"} :
          setPriorityFilter(value) /\ UNCHANGED <<teamVars, taskVars, pageVars, ownedVars, projVars, selVars>>
    \/ \E value \in {NoDate, 15} :
          setDueDateFrom(value) /\ UNCHANGED <<teamVars, taskVars, pageVars, ownedVars, projVars, selVars>>
    \/ \E value \in {NoDate, 15} :
          setDueDateTo(value) /\ UNCHANGED <<teamVars, taskVars, pageVars, ownedVars, projVars, selVars>>
    \/ \E value \in {"created_at", "priority", "due_date", "assignee"} :
          setSortBy(value) /\ UNCHANGED <<teamVars, taskVars, pageVars, ownedVars, projVars, selVars>>
    \/ \E value \in {"asc", "desc"} :
          setSortOrder(value) /\ UNCHANGED <<teamVars, taskVars, pageVars, ownedVars, projVars, selVars>>
    \/ clearAllFilters /\ UNCHANGED <<teamVars, taskVars, pageVars, ownedVars, projVars, selVars>>

InitList == TeamIdle /\ TaskIdle /\ PageIdle /\ ListInit /\ ProjIdle

SpecList == InitList /\ [][ListNext]_vars

\* selecting tasks, filtering by status and the bulk actions
SelectNext ==
    \/ \E value \in {"", "todo"} :
          setStatusFilter(value) /\ UNCHANGED <<teamVars, taskVars, pageVars, ownedVars, projVars, selVars>>
    \/ handleSelectAll /\ UNCHANGED <<teamVars, taskVars, pageVars, ownedVars, projVars>>
    \/ \E taskId \in {1, 3, 4} :
          handleSelectTask(taskId) /\ UNCHANGED <<teamVars, taskVars, pageVars, ownedVars, projVars>>
    \/ handleBulkStatusChange("complete")
          /\ UNCHANGED <<teamVars, taskVars, pageVars, ownedVars, projVars>>
    \/ handleBulkAssign(1) /\ UNCHANGED <<teamVars, taskVars, pageVars, ownedVars, projVars>>
    \/ \E c \in {<<NoUser, TRUE>>, <<1, TRUE>>} :
          bulkUpdateReturned(c[1], c[2]) /\ UNCHANGED <<teamVars, pageVars, ownedVars, projVars>>
    \/ loadTasksData /\ UNCHANGED <<teamVars, pageVars, ownedVars, projVars>>
    \/ loadTasksError /\ UNCHANGED <<teamVars, pageVars, ownedVars, projVars>>

\* filtering, sorting and exporting
ExportNext ==
    \/ \E value \in {"", "todo"} :
          setStatusFilter(value) /\ UNCHANGED <<teamVars, taskVars, pageVars, ownedVars, projVars, selVars>>
    \/ \E value \in {"created_at", "priority"} :
          setSortBy(value) /\ UNCHANGED <<teamVars, taskVars, pageVars, ownedVars, projVars, selVars>>
    \/ \E value \in {"asc", "desc"} :
          setSortOrder(value) /\ UNCHANGED <<teamVars, taskVars, pageVars, ownedVars, projVars, selVars>>
    \/ exportToCSV /\ UNCHANGED <<teamVars, taskVars, pageVars, ownedVars, projVars>>

InitExport == TeamIdle /\ TaskIdle /\ PageIdle /\ ExportInit /\ ProjIdle

SpecExport == InitExport /\ [][ExportNext]_vars

InitSelect == TeamIdle /\ PageIdle /\ SelectInit /\ ProjIdle

SpecSelect == InitSelect /\ [][SelectNext]_vars

\* the projects page and its reports, with tasks being deleted
ProjNext ==
    \/ \E c \in {<<NoUser, TRUE>>, <<1, TRUE>>, <<1, FALSE>>}, projectId \in ProjectIds :
          deleteProject(c[1], projectId, c[2]) /\ UNCHANGED <<teamVars, pageVars, listVars>>
    \/ \E actor \in Users, taskId \in 1..MaxProjectTasks :
          deleteTask(actor, taskId, TRUE) /\ UNCHANGED <<teamVars, pageVars, listVars, projVars>>
    \/ \E actor \in {NoUser, 1} :
          getAllProjects(actor) /\ UNCHANGED <<teamVars, pageVars, listVars>>
    \/ \E actor \in {NoUser, 1}, projectId \in ProjectIds :
          getProjectById(actor, projectId) /\ UNCHANGED <<teamVars, pageVars, listVars>>

\* the timesheet of a project, with tasks being deleted
TimesheetNext ==
    \/ \E actor \in Users, taskId \in 1..MaxProjectTasks :
          deleteTask(actor, taskId, TRUE) /\ UNCHANGED <<teamVars, pageVars, listVars, projVars>>
    \/ \E actor \in {NoUser, 1}, projectId \in ProjectIds, range \in {<<1, 3>>, <<2, 2>>} :
          getProjectTimesheet(actor, projectId, range[1], range[2])
          /\ UNCHANGED <<teamVars, pageVars, listVars>>

InitProjects == TeamIdle /\ PageIdle /\ ListIdle /\ ProjInit

SpecProjects == InitProjects /\ [][ProjNext]_vars

SpecTimesheet == InitProjects /\ [][TimesheetNext]_vars

\* ---- getTeamStats
\* thirtyDaysAgo, as a day number; the calls of the model are made later, so
\* a task that a call has completed has its updated_at in the window
ThirtyDaysAgo == 10

\* time entries with who logged them and when
StatsEntries ==
    {[id |-> 1, task_id |-> 1, minutes |-> 30, date |-> 20, user_id |-> 1, created_at |-> 20],
     [id |-> 2, task_id |-> 1, minutes |-> 45, date |-> 20, user_id |-> 2, created_at |-> 20],
     [id |-> 3, task_id |-> 2, minutes |-> 15, date |-> 5, user_id |-> 2, created_at |-> 5]}

\* activeUserIds: the user_id of the recent time entries and the assignee_id
\* of the tasks completed recently
ActiveUserIds(tm, tk, entries) ==
    {e.user_id : e \in {x \in entries : x.created_at >= ThirtyDaysAgo}}
    \cup {tk[t].assignee_id :
            t \in {x \in DOMAIN tk : tk[x].status = "complete" /\ tk[x].assignee_id # NoUser}}

\* the data getTeamStats returns
TeamStats(tm, tk, entries) ==
    [total_members |-> Cardinality({u \in Users : tm[u] # NULL}),
     total_tasks |-> Cardinality(DOMAIN tk),
     completed_tasks |-> Cardinality({t \in DOMAIN tk : tk[t].status = "complete"}),
     total_time_tracked_minutes |-> SumMinutes({e \in entries : e.task_id \in DOMAIN tk}),
     active_members |-> Cardinality(ActiveUserIds(tm, tk, entries))]

getTeamStats(actor) ==
    /\ teamCall' = [op |-> "getTeamStats", actor |-> actor, userId |-> NoUser,
                    newRole |-> NULL]
    /\ teamResult' = IF actor = NoUser THEN [error |-> NotAuthenticated]
                     ELSE [data |-> TeamStats(team_members, tasks, time_entries)]
    /\ UNCHANGED <<team_members, formerAdmins, inFlight>>

\* a store with two tasks to do and some time entries
StatsInit ==
    /\ tasks \in [TaskIds -> {[status |-> "todo", description |-> NULL, assignee_id |-> a,
                               creator_id |-> 1, project_id |-> NoProject] :
                                 a \in Users \cup {NoUser}}]
    /\ taskCall = NoCall
    /\ taskResult = "none"
    /\ projects = {}
    /\ project_rows = <<>>
    /\ time_entries \in SUBSET StatsEntries
    /\ task_comments = {}
    /\ projCall = NoProjCall
    /\ projResult = NoProjResult

\* time is tracked (the entries of the store), tasks are completed, members
\* are removed and the statistics are read
StatsNext ==
    \/ \E actor \in Users, taskId \in TaskIds :
          updateTaskStatus(actor, taskId, "complete", TRUE)
          /\ UNCHANGED <<teamVars, pageVars, listVars, ownedVars, projVars>>
    \/ \E actor \in Users, userId \in Users :
          RemoveMember(actor, userId, TRUE)
          /\ UNCHANGED <<taskVars, pageVars, listVars, ownedVars, projVars>>
    \/ \E actor \in Users \cup {NoUser} :
          getTeamStats(actor) /\ UNCHANGED <<taskVars, pageVars, listVars, ownedVars, projVars>>

InitStats == TeamIdle /\ PageIdle /\ ListIdle /\ StatsInit

SpecStats == InitStats /\ [][StatsNext]_vars

\* projects being edited and deleted
ProjectEditNext ==
    \/ \E c \in {<<NoUser, TRUE>>, <<1, TRUE>>, <<1, FALSE>>}, projectId \in ProjectIds,
          input \in ProjectInputs :
          updateProject(c[1], projectId, input, c[2]) /\ UNCHANGED <<teamVars, pageVars, listVars>>
    \/ \E projectId \in ProjectIds :
          deleteProject(1, projectId, TRUE) /\ UNCHANGED <<teamVars, pageVars, listVars>>

InitProjectEdit ==
    TeamIdle /\ PageIdle /\ ListIdle /\ ProjInit /\ tasks = [t \in 1..MaxProjectTasks |->
        [status |-> "todo", description |-> NULL, assignee_id |-> 1, creator_id |-> 1,
         project_id |-> 1]] /\ time_entries = {}

SpecProjectEdit == InitProjectEdit /\ [][ProjectEditNext]_vars

InitPage == TeamIdle /\ TaskIdle /\ PageInit /\ ListIdle /\ ProjIdle

SpecPage == InitPage /\ [][PageNext]_vars

\* the handlers of the page overlapping: a comment is submitted, the status
\* is changed and the task is reloaded while another of them awaits its call
PageOverlapNext ==
    \/ TypeText("hello ") /\ UNCHANGED <<teamVars, taskVars, listVars, ownedVars, projVars, commentResult>>
    \/ handleSubmit /\ UNCHANGED <<teamVars, taskVars, listVars, ownedVars, projVars, commentResult>>
    \/ handleSubmitApply /\ UNCHANGED <<teamVars, taskVars, listVars, ownedVars, projVars, commentResult>>
    \/ handleSubmitError(StoreFailure) /\ UNCHANGED <<teamVars, taskVars, listVars, ownedVars, projVars, commentResult>>
    \/ handleSubmitData /\ UNCHANGED <<teamVars, taskVars, listVars, ownedVars, projVars, commentResult>>
    \/ commentsEffect /\ UNCHANGED <<teamVars, taskVars, listVars, ownedVars, projVars, commentResult>>
    \/ load.pc # "sent" /\ reloadTask /\ UNCHANGED <<teamVars, taskVars, listVars, ownedVars, projVars, commentResult>>
    \/ loadTaskDetailsData /\ UNCHANGED <<teamVars, taskVars, listVars, ownedVars, projVars, commentResult>>
    \/ \E newStatus \in StatusInputs :
          handleStatusChange(newStatus) /\ UNCHANGED <<teamVars, taskVars, listVars, ownedVars, projVars, commentResult>>
    \/ handleStatusChangeError(StoreFailure) /\ UNCHANGED <<teamVars, taskVars, listVars, ownedVars, projVars, commentResult>>
    \/ load.pc # "sent" /\ handleStatusChangeData /\ UNCHANGED <<teamVars, taskVars, listVars, ownedVars, projVars, commentResult>>
    \/ otherMemberSetsStatus("in_review") /\ UNCHANGED <<teamVars, taskVars, listVars, ownedVars, projVars, commentResult>>

SpecPageOverlap == InitPage /\ [][PageOverlapNext]_vars

\* the comment form of the page once the task is loaded, and addComment
\* called with any content and attachments
CommentsNext ==
    \/ \E t \in Texts \ {""} : TypeText(t) /\ UNCHANGED <<teamVars, taskVars, listVars, ownedVars, projVars, commentResult>>
    \/ UploadFile /\ UNCHANGED <<teamVars, taskVars, listVars, ownedVars, projVars, commentResult>>
    \/ Quiet /\ handleSubmit /\ UNCHANGED <<teamVars, taskVars, listVars, ownedVars, projVars, commentResult>>
    \/ handleSubmitApply /\ UNCHANGED <<teamVars, taskVars, listVars, ownedVars, projVars, commentResult>>
    \/ \E error \in {NotAuthenticated, StoreFailure} :
          handleSubmitError(error) /\ UNCHANGED <<teamVars, taskVars, listVars, ownedVars, projVars, commentResult>>
    \/ handleSubmitData /\ UNCHANGED <<teamVars, taskVars, listVars, ownedVars, projVars, commentResult>>
    \/ commentsEffect /\ UNCHANGED <<teamVars, taskVars, listVars, ownedVars, projVars, commentResult>>
    \/ loadTaskDetailsData /\ UNCHANGED <<teamVars, taskVars, listVars, ownedVars, projVars, commentResult>>
    \/ \E actor \in {NoUser, 1}, content \in {"", " ", "hello "}, files \in {<<>>, <<"f1">>} :
          addComment(actor, content, files, TRUE)
          /\ UNCHANGED <<teamVars, taskVars, listVars, ownedVars, projVars>>

SpecComments == InitPage /\ [][CommentsNext]_vars

\* ------------------------------------------------------------- team claims

\* C1: starting from a team with at least one admin, after any sequence of
\* updateMemberRole and removeMember calls, each run to completion, the team
\* still has at least one member whose role is admin.
C1_AdminCountInvariant == AdminCount(team_members) >= 1

\* A demotion or removal of an admin went through and left exactly one admin.
C1_Witness ==
    /\ teamResult = Success
    /\ teamCall.userId \in formerAdmins
    /\ AdminCount(team_members) = 1

\* The call of this step targets the only admin of the team, to demote or
\* remove it, and is made by an admin (so by that member itself).
SoleAdminCall ==
    /\ AdminCount(team_members) = 1
    /\ team_members[teamCall'.userId] = "admin"
    /\ teamCall'.actor \in Users
    /\ IsAdmin(team_members, teamCall'.actor)
    /\ \/ teamCall'.op = "updateMemberRole" /\ teamCall'.newRole = "member"
       \/ teamCall'.op = "removeMember"

\* C2 as stated: in a team with exactly one admin, demoting that member and
\* removing that member each return the last-admin error and leave the
\* member's record unchanged.
C2_Original ==
    [][SoleAdminCall =>
          /\ teamResult' = LastAdminError
          /\ team_members' = team_members]_vars

\* C2 amended: in a team with exactly one admin, no call demoting or removing
\* that member changes team_members, whoever calls; called by that admin,
\* updateMemberRole returns the last-admin error and removeMember returns
\* 'Cannot remove yourself' (the self-removal check comes first).
C2_LastAdminGuard ==
    [][/\ (/\ AdminCount(team_members) = 1
           /\ team_members[teamCall'.userId] = "admin"
           /\ \/ teamCall'.op = "updateMemberRole" /\ teamCall'.newRole = "member"
              \/ teamCall'.op = "removeMember")
          => team_members' = team_members
       /\ SoleAdminCall =>
             teamResult' = IF teamCall'.op = "updateMemberRole"
                           THEN LastAdminError ELSE CannotRemoveSelf]_vars

\* The only admin asked to demote itself and got the last-admin error.
C2_Witness ==
    /\ teamCall.op = "updateMemberRole"
    /\ teamCall.newRole = "member"
    /\ teamCall.userId = teamCall.actor
    /\ teamResult = LastAdminError
    /\ AdminCount(team_members) = 1
    /\ team_members[teamCall.userId] = "admin"

\* C3: a call changes team_members only when the caller's role, read from
\* team_members in that call, is admin; any other caller gets an
\* authorization error and no record changes.
C3_RoleReadPerCall ==
    [][LET a == teamCall'.actor
       IN  (a = NoUser \/ team_members[a] # "admin") =>
              /\ team_members' = team_members
              /\ teamResult' \in {NotAuthenticated, OnlyAdminsRole, OnlyAdminsRemove}]_vars

\* A member that was admin and has been demoted or removed tried again and
\* was refused.
C3_Witness ==
    /\ teamCall.actor \in formerAdmins
    /\ team_members[teamCall.actor] # "admin"
    /\ teamResult \in {OnlyAdminsRole, OnlyAdminsRemove}

\* ------------------------------------------------------------- task claims

SingleTaskOps == {"updateTaskStatus", "updateTaskDescription", "updateTask", "deleteTask"}

\* The call of this step is a single-task mutation by an authenticated actor
\* who is neither the stored assignee nor the stored creator of the task, or
\* the task does not exist.
UnauthorizedTaskCall ==
    /\ taskCall'.op \in SingleTaskOps
    /\ taskCall'.actor \in Users
    /\ \A t \in taskCall'.taskIds :
          \/ t \notin DOMAIN tasks
          \/ /\ tasks[t].assignee_id # taskCall'.actor
             /\ tasks[t].creator_id # taskCall'.actor

\* C4: updateTaskStatus, updateTaskDescription, updateTask and deleteTask,
\* called by an actor who is neither the stored assignee nor the stored
\* creator (or for a task that does not exist), return an authorization
\* error and leave the tasks unchanged; the rows read are those stored at the
\* time of the call, so an assignee who is not the creator and is replaced by
\* a call is no longer let through after it.
C4_TaskAuthorization ==
    [][/\ UnauthorizedTaskCall =>
             /\ tasks' = tasks
             /\ taskResult' = IF taskCall'.op = "deleteTask"
                              THEN NotAuthorizedDelete ELSE NotAuthorizedUpdate
       /\ \A t \in DOMAIN tasks \cap DOMAIN tasks' :
             LET a == tasks[t].assignee_id
             IN  (a \in Users /\ tasks'[t].assignee_id # a /\ tasks[t].creator_id # a)
                    => ~CanMutateTask(tasks', a, t)]_vars

\* A member who is neither assignee nor creator of an existing task asked to
\* change it and was refused.
C4_Witness ==
    /\ taskCall.op \in SingleTaskOps
    /\ taskCall.actor \in Users
    /\ taskResult \in {NotAuthorizedUpdate, NotAuthorizedDelete}
    /\ \E t \in taskCall.taskIds :
          /\ t \in DOMAIN tasks
          /\ tasks[t].assignee_id # taskCall.actor
          /\ tasks[t].creator_id # taskCall.actor
          /\ tasks[t].description # NULL

\* C5: bulkUpdateTasks changes the status or assignee of a named task only
\* if the acting member is that task's stored assignee or creator, and
\* otherwise fails with an authorization error.
C5_BulkVerifiesActor ==
    [][taskCall'.op = "bulkUpdateTasks" =>
          \A t \in DOMAIN tasks :
             (tasks[t].assignee_id # taskCall'.actor /\ tasks[t].creator_id # taskCall'.actor)
                => /\ tasks'[t] = tasks[t]
                   /\ t \in taskCall'.taskIds =>
                         taskResult' \in {NotAuthenticated, NotAuthorizedUpdate}]_vars

\* ------------------------------------------------------------ page claims

TempIdVisible == \E i \in DOMAIN comments : comments[i].id < 0

\* C6: when addComment returns data, the pending record is replaced by the
\* returned row at the same index, every other record and the length of the
\* collection are unchanged, the returned row is in the collection exactly
\* once, and onCommentAdded is called with it exactly once; the effect that
\* follows the new comments prop leaves the collection as it is
C6_ConfirmReplacesPending ==
    [][ /\ (sub.pc = "pending" /\ sub'.pc = "confirmed" /\ ~sub.orphaned) =>
             LET data == sub'.data
             IN  /\ data = srvComments'[Len(srvComments')]
                 /\ \E i \in DOMAIN comments : comments[i].id = sub.tempId
                 /\ Len(comments') = Len(comments)
                 /\ \A i \in DOMAIN comments :
                       comments'[i] = IF comments[i].id = sub.tempId THEN data
                                      ELSE comments[i]
                 /\ Cardinality({i \in DOMAIN comments' : comments'[i].id = data.id}) = 1
                 /\ sub.notified = 0 /\ sub'.notified = 1
                 /\ task'.comments = Append(task.comments, data)
        /\ (effectPending /\ ~effectPending' /\ sub'.pc = "confirmed") =>
             comments' = comments ]_vars

C6_Witness ==
    /\ sub.pc = "confirmed" /\ sub.notified = 1 /\ ~effectPending
    /\ Len(comments) = 2
    /\ comments[1].id = 1
    /\ comments[2] = sub.data
    /\ sub.data.content = "hello"

\* C7: when addComment returns an error, the pending record is removed, the
\* collection is the one from before the submission, the error is shown, and
\* the editor text and the uploaded files are those that were submitted
C7_ErrorRollsBack ==
    [][ (sub.pc = "pending" /\ sub'.pc = "rolledBack" /\ ~sub.orphaned) =>
          /\ \E i \in DOMAIN comments : comments[i].id = sub.tempId
          /\ \A i \in DOMAIN comments' : comments'[i].id # sub.tempId
          /\ comments' = sub.before
          /\ cError' = sub'.error /\ cError' # NULL
          /\ newComment' = sub.content
          /\ uploadedFiles' = sub.files
          /\ srvComments' = srvComments ]_vars

C7_Witness ==
    /\ sub.pc = "rolledBack" /\ cError = StoreFailure
    /\ newComment = "hello " /\ Len(uploadedFiles) = 1
    /\ Len(comments) = 1 /\ comments[1].id = 1

\* C8: once a submission has its result (confirmed or rolled back, loading
\* false again), no record with a temporary identity is in the collection
C8_NoTempAfterResult ==
    (sub.pc \in {"confirmed", "rolledBack"} /\ ~cLoading) => ~TempIdVisible

C8_Witness ==
    /\ sub.pc \in {"confirmed", "rolledBack"} /\ ~cLoading
    /\ sub.tempId < -1
    /\ Len(comments) >= 1

\* C9: every submission that has added a pending record and whose addComment
\* call has ended, with data, with an error or by failing, is confirmed or
\* rolled back: loading is false and no pending record is left
C9_EveryOutcomeTerminal ==
    sub.pc \notin {"idle", "auth", "pending"} =>
        /\ sub.pc \in {"confirmed", "rolledBack"}
        /\ ~cLoading
        /\ ~TempIdVisible

C11_BulkAtomic ==
    [][taskCall'.op = "bulkUpdateTasks" =>
        \A updates \in BulkUpdates, storeOk \in BOOLEAN :
          LET taskIds == taskCall'.taskIds
          IN
          bulkUpdateTasks(taskCall'.actor, taskIds, updates.status, updates.assignee_id,
                          storeOk) =>
            /\ DOMAIN tasks' = DOMAIN tasks
            /\ taskResult' # Success => tasks' = tasks
            /\ taskResult' = Success =>
                 \A t \in DOMAIN tasks :
                    IF t \in taskIds
                    THEN /\ tasks'[t].status = IF updates.status = UNDEF
                                               THEN tasks[t].status ELSE updates.status
                         /\ tasks'[t].assignee_id = IF updates.assignee_id = UndefUser
                                                    THEN tasks[t].assignee_id
                                                    ELSE updates.assignee_id
                         /\ tasks'[t].creator_id = tasks[t].creator_id
                         /\ tasks'[t].description = tasks[t].description
                    ELSE tasks'[t] = tasks[t] ]_vars

C11_Witness ==
    /\ taskCall.op = "bulkUpdateTasks" /\ taskResult = Success
    /\ taskCall.taskIds = {1}
    /\ DOMAIN tasks = {1, 2}
    /\ tasks[1].status = "complete"
    /\ tasks[2].status = "todo"

\* ------------------------------------------------------ all-tasks claims

InOutput(t) == \E j \in DOMAIN filteredTasks : filteredTasks[j] = t

IdsOf(ts) == [i \in DOMAIN ts |-> ts[i].id]

NoOtherFilter ==
    searchQuery = NoText /\ statusFilter = "" /\ assigneeFilter = NoUser /\ priorityFilter = ""

\* C12: with a due-date lower and/or upper bound set, a task that passes the
\* other filters is in the output of applyFilters exactly if it has a due date
\* d with lower <= d and d <= upper; a task with no due date is not in it
C12_DueDateBounds ==
    (dueDateFrom # NoDate \/ dueDateTo # NoDate) =>
        \A i \in DOMAIN allTasks :
            LET t == allTasks[i]
                inRange == /\ t.due_date # NoDate
                           /\ dueDateFrom # NoDate => dueDateFrom <= t.due_date
                           /\ dueDateTo # NoDate => t.due_date <= dueDateTo
                others == PassesFilters(t, searchQuery, statusFilter, assigneeFilter,
                                        priorityFilter, NoDate, NoDate)
            IN  InOutput(t) <=> (others /\ inRange)

\* A (due 10), B (no due date), C (due 20) with due_date_from = 15: only C
C12_Witness ==
    /\ IdsOf(allTasks) = <<1, 2, 3>>
    /\ dueDateFrom = 15 /\ dueDateTo = NoDate /\ NoOtherFilter
    /\ IdsOf(filteredTasks) = <<3>>

C13_Rank(priority) ==
    IF priority = "urgent" THEN 4 ELSE IF priority = "high" THEN 3
    ELSE IF priority = "normal" THEN 2 ELSE IF priority = "low" THEN 1 ELSE 0

\* C13: with sort_by = priority the ranks (urgent 4, high 3, normal 2, low 1,
\* unset 0) of the output of applyFilters are non-increasing for descending
\* and non-decreasing for ascending order
C13_PrioritySort ==
    sort_by = "priority" =>
        \A i, j \in DOMAIN filteredTasks :
            i < j => IF sort_order = "desc"
                     THEN C13_Rank(filteredTasks[i].priority) >= C13_Rank(filteredTasks[j].priority)
                     ELSE C13_Rank(filteredTasks[i].priority) <= C13_Rank(filteredTasks[j].priority)

\* [urgent, unset, low] descending is [urgent, low, unset]
C13_Witness ==
    /\ IdsOf(allTasks) = <<1, 2, 3>>
    /\ sort_by = "priority" /\ sort_order = "desc"
    /\ dueDateFrom = NoDate /\ dueDateTo = NoDate /\ NoOtherFilter
    /\ IdsOf(filteredTasks) = <<1, 3, 2>>

C14_Satisfies(t) ==
    /\ MatchesSearch(t, searchQuery)
    /\ statusFilter # "" => t.status = statusFilter
    /\ assigneeFilter # NoUser => t.assignee_id = assigneeFilter
    /\ priorityFilter # "" => t.priority = priorityFilter
    /\ dueDateFrom # NoDate => (t.due_date # NoDate /\ t.due_date >= dueDateFrom)
    /\ dueDateTo # NoDate => (t.due_date # NoDate /\ t.due_date <= dueDateTo)

C14_Times(t, ts) == Cardinality({i \in DOMAIN ts : ts[i] = t})

\* C14: the output of applyFilters holds each input task that satisfies every
\* set criterion once and no other task, and a change of the sort key or the
\* direction alone does not change which tasks are in the output
C14_FilterThenSort ==
    /\ [](\A t \in TaskPool :
            C14_Times(t, filteredTasks) =
                IF C14_Times(t, allTasks) = 1 /\ C14_Satisfies(t) THEN 1 ELSE 0)
    /\ [][(sort_by' # sort_by \/ sort_order' # sort_order) =>
            {filteredTasks'[i] : i \in DOMAIN filteredTasks'}
                = {filteredTasks[i] : i \in DOMAIN filteredTasks}]_vars

\* two of three tasks pass a status and a due-date filter, and the sort by
\* due date puts them in another order than the input
C14_Witness ==
    /\ IdsOf(allTasks) = <<4, 3, 1>>
    /\ statusFilter = "todo" /\ dueDateTo = 15
    /\ sort_by = "due_date" /\ sort_order = "asc"
    /\ IdsOf(filteredTasks) = <<1, 4>>


\* ------------------------------------------------------------------ C15
\* the statistics of a project with these tasks, stated without the code's
\* arithmetic: p is the integer nearest to 100 * completed / total (a half
\* goes up), or 0 when there is no task
C15_Progress(stats, projectId) ==
    LET rows == {t \in DOMAIN tasks : tasks[t].project_id = projectId}
        total == Cardinality(rows)
        completed == Cardinality({t \in rows : tasks[t].status = "complete"})
        p == stats.progress_percentage
    IN  /\ p \in 0..100
        /\ stats.task_count = total
        /\ stats.completed_task_count = completed
        /\ completed <= total
        /\ total = 0 => p = 0
        /\ total > 0 => /\ 2 * total * p <= 200 * completed + total
                        /\ 200 * completed + total < 2 * total * (p + 1)

\* C15: the progress percentage that getProjectById and getAllProjects
\* compute for a project is an integer in 0..100: 0 when the project has no
\* task, otherwise 100 * completed / total rounded to the nearest integer,
\* completed being the number of its tasks with status complete, which never
\* exceeds the number of its tasks
C15_ProgressPercentage ==
    [][/\ \A actor \in Actors, projectId \in ProjectIds :
            getProjectById(actor, projectId) /\ projResult'.error = NULL
            => C15_Progress(projResult'.data, projectId)
       /\ \A actor \in Actors :
            getAllProjects(actor) /\ projResult'.error = NULL
            => \A projectId \in DOMAIN projResult'.data :
                 C15_Progress(projResult'.data[projectId], projectId)]_vars

\* getProjectById answered for a project of 3 tasks with 1 complete: 33
C15_Witness ==
    /\ projCall.op = "getProjectById" /\ projResult.error = NULL
    /\ projResult.data.task_count = 3
    /\ projResult.data.completed_task_count = 1
    /\ projResult.data.progress_percentage = 33

\* ------------------------------------------------------------------ C16
\* the sum of f over the keys in S
RECURSIVE C16_Sum(_, _)
C16_Sum(f, S) ==
    IF S = {} THEN 0
    ELSE LET x == CHOOSE y \in S : TRUE
         IN  f[x] + C16_Sum(f, S \ {x})

\* the row of task t in a timesheet over [startDate, endDate]
C16_Row(row, t, startDate, endDate) ==
    LET mine == {e \in time_entries :
                   e.task_id = t /\ startDate <= e.date /\ e.date <= endDate}
        minutesOf == [id \in {e.id : e \in mine} |->
                        (CHOOSE e \in mine : e.id = id).minutes]
    IN  /\ DOMAIN row.daily_time = {e.date : e \in mine}
        /\ \A d \in DOMAIN row.daily_time :
             row.daily_time[d] =
               C16_Sum(minutesOf, {e.id : e \in {x \in mine : x.date = d}})
        /\ row.total_minutes = C16_Sum(row.daily_time, DOMAIN row.daily_time)
        /\ row.total_minutes = C16_Sum(minutesOf, DOMAIN minutesOf)

\* C16: getProjectTimesheet returns one row for every task of the project,
\* also for a task with no entry in the range (no day, total 0); the total
\* of a row is the sum of its days and the sum of the minutes of the task's
\* entries dated from startDate to endDate inclusive, each counted once; and
\* week_total is the sum of the totals of the rows
C16_Timesheet ==
    [][\A actor \in Actors, projectId \in ProjectIds, startDate \in 1..3, endDate \in 2..3 :
          getProjectTimesheet(actor, projectId, startDate, endDate)
          /\ projResult'.error = NULL
          => LET data == projResult'.data
                 rows == {t \in DOMAIN tasks : tasks[t].project_id = projectId}
             IN  /\ DOMAIN data.tasks = rows
                 /\ \A t \in rows : C16_Row(data.tasks[t], t, startDate, endDate)
                 /\ data.week_total =
                      C16_Sum([t \in rows |-> data.tasks[t].total_minutes], rows)]_vars

\* a timesheet of the single day 2: a task with two entries on that day and
\* one outside the range has 75 minutes, a task without entries has a row
C16_Witness ==
    /\ projCall.op = "getProjectTimesheet" /\ projResult.error = NULL
    /\ projCall.startDate = 2 /\ projCall.endDate = 2
    /\ \E e \in time_entries : e.task_id = 1 /\ e.date = 5
    /\ \E t, u \in DOMAIN projResult.data.tasks :
         /\ projResult.data.tasks[t].total_minutes = 75
         /\ projResult.data.tasks[t].daily_time[2] = 75
         /\ projResult.data.tasks[u].total_minutes = 0
         /\ DOMAIN projResult.data.tasks[u].daily_time = {}
    /\ projResult.data.week_total = 75

\* ------------------------------------------------------------------ C17
\* C17: when deleteProject succeeds, no task is deleted: every task that
\* referenced the project is still there with no project and its other
\* fields as they were, and every other task is as it was
C17_DeleteProjectDetaches ==
    [][\A c \in Callers, projectId \in ProjectIds :
          deleteProject(c[1], projectId, c[2]) /\ projResult'.error = NULL
          => /\ projectId \notin projects'
             /\ DOMAIN tasks' = DOMAIN tasks
             /\ \A t \in DOMAIN tasks :
                  IF tasks[t].project_id = projectId
                  THEN /\ tasks'[t].project_id = NoProject
                       /\ [tasks'[t] EXCEPT !.project_id = projectId] = tasks[t]
                  ELSE tasks'[t] = tasks[t]]_vars

\* project 1 was deleted: its three tasks are still there, in no project
C17_Witness ==
    /\ projCall.op = "deleteProject" /\ projCall.projectId = 1
    /\ projResult.error = NULL
    /\ projects = {2}
    /\ DOMAIN tasks = 1..MaxProjectTasks
    /\ \A t \in DOMAIN tasks : tasks[t].project_id = NoProject
    /\ tasks[1].status = "complete"

\* ------------------------------------------------------------------ C18
\* C18: when deleteTask succeeds, no time entry and no comment of the
\* deleted task is left, so that every time entry and every comment in the
\* store is one of a task that exists
C18_TaskOwnsChildren ==
    /\ [](\A row \in time_entries \cup task_comments : row.task_id \in DOMAIN tasks)
    /\ [][\A actor \in Users, taskId \in 1..MaxProjectTasks :
            deleteTask(actor, taskId, TRUE) /\ taskResult' = Success
            => /\ taskId \notin DOMAIN tasks'
               /\ \A row \in time_entries' \cup task_comments' : row.task_id # taskId
               /\ \A row \in time_entries \cup task_comments :
                    row.task_id # taskId
                    => row \in time_entries' \cup task_comments']_vars

\* task 1, with three time entries and a comment, was deleted: the entry and
\* the comment of task 2 are all that is left of them
C18_Witness ==
    /\ taskCall.op = "deleteTask" /\ taskCall.taskIds = {1} /\ taskResult = Success
    /\ 1 \notin DOMAIN tasks /\ 2 \in DOMAIN tasks
    /\ {e.id : e \in time_entries} = {4}
    /\ {c.task_id : c \in task_comments} = DOMAIN tasks


\* ------------------------------------------------------------------ C19
\* C19: the creator of a task is set when the task is created, by
\* createTask, duplicateTask or convertTaskToTemplate, to the authenticated
\* caller, the new task having status todo; and no call of updateTask,
\* updateTaskStatus, updateTaskDescription or bulkUpdateTasks changes the
\* creator of any task
C19_CreatorSetOnce ==
    /\ [](\A t \in DOMAIN tasks : tasks[t].creator_id \in Users)
    /\ [][/\ \A t \in DOMAIN tasks :
               t \in DOMAIN tasks' /\ tasks'[t].creator_id = tasks[t].creator_id
          /\ \A t \in DOMAIN tasks' \ DOMAIN tasks :
               /\ taskCall'.op \in {"createTask", "duplicateTask", "convertTaskToTemplate"}
               /\ taskResult' = Success
               /\ taskCall'.actor \in Users
               /\ tasks'[t].creator_id = taskCall'.actor
               /\ tasks'[t].status = "todo"]_vars

\* user 2 made a template of the task that user 1 created and that was
\* completed and reassigned since: each task has its own creator
C19_Witness ==
    /\ taskCall.op = "convertTaskToTemplate" /\ taskCall.actor = 2
    /\ taskResult = Success /\ taskCall.taskIds = {2}
    /\ tasks[1].creator_id = 1 /\ tasks[1].status = "complete"
    /\ tasks[1].assignee_id = 2
    /\ tasks[2].creator_id = 2 /\ tasks[2].status = "todo"
    /\ tasks[2].assignee_id = NoUser


\* ------------------------------------------------------------------ C20
\* C20: addComment called with a content that is empty once trimmed and
\* with no attachment returns the validation error and inserts nothing, so
\* that every stored comment has a content or an attachment; and when the
\* form is submitted with such an input (or with markup around no text) the
\* handler adds no pending comment and calls nothing
C20_CommentNotEmpty ==
    /\ [](\A i \in DOMAIN srvComments :
            \/ srvComments[i].content \notin {NULL, "", " "}
            \/ Len(srvComments[i].files) > 0)
    /\ [][\A content \in {"", " "} :
            addComment(1, content, <<>>, TRUE)
            => commentResult' = EmptyComment /\ srvComments' = srvComments]_vars
    /\ [][handleSubmit /\ newComment \in {"", "<p> </p>"} /\ uploadedFiles = <<>>
          => /\ cError' = EmptyComment
             /\ comments' = comments
             /\ sub' = sub /\ sub.pc \notin {"auth", "pending"}
             /\ srvComments' = srvComments]_vars

\* addComment refused a blank comment, stored one that is only a file, and the
\* form refused to submit an empty editor
C20_Witness ==
    /\ commentResult = EmptyComment
    /\ cError = EmptyComment
    /\ newComment = "" /\ uploadedFiles = <<>>
    /\ sub.pc = "idle"
    /\ \E i \in DOMAIN srvComments :
         srvComments[i].content = NULL /\ srvComments[i].files = <<"f1">>


\* ------------------------------------------------------------------ C21
\* the pending record is the one record the submission added to the view
C21_PendingShown ==
    /\ Len(comments) = Len(sub.before) + 1
    /\ SubSeq(comments, 1, Len(sub.before)) = sub.before
    /\ comments[Len(comments)] =
         [id |-> sub.tempId, content |-> sub.content, files |-> sub.files]
    /\ sub.tempId < 0

\* C21: while the write of a submission is in flight, the pending record
\* (temporary identity, the submitted content) is in the view, it is the
\* only record the submission added, and it has been reported to the
\* listener onCommentAdded
C21_OptimisticApply ==
    [](sub.pc = "pending" /\ ~sub.orphaned => C21_PendingShown /\ sub.notified >= 1)


C30_SelectionDisplayed ==
    /\ [](selectedTasks \subseteq DisplayedIds(filteredTasks))
    /\ [](SelectAllChecked <=>
            (Len(filteredTasks) > 0 /\ DisplayedIds(filteredTasks) \subseteq selectedTasks))
    /\ [][bulk.pc # "sent" /\ bulk'.pc = "sent"
          => bulk'.ids \subseteq DisplayedIds(filteredTasks)]_vars


\* reading the text back as a spreadsheet does: a quote opens or closes a
\* cell, so a character is outside the cells when an even number of quotes
\* comes before it; commas and line breaks outside the cells separate
C23_QuotesBefore(text, i) == Cardinality({j \in 1..(i - 1) : text[j] = Quote})

C23_Separators(text, c) ==
    {i \in DOMAIN text : text[i] = c /\ C23_QuotesBefore(text, i) % 2 = 0}

C23_Kth(S, k) == CHOOSE x \in S : Cardinality({y \in S : y < x}) = k - 1

\* the pieces of the text between the positions of S
C23_Split(text, S) ==
    [k \in 1..(Cardinality(S) + 1) |->
        SubSeq(text,
               IF k = 1 THEN 1 ELSE C23_Kth(S, k - 1) + 1,
               IF k = Cardinality(S) + 1 THEN Len(text) ELSE C23_Kth(S, k) - 1)]

\* the value of a cell: its characters without the quotes around it, a
\* doubled quote inside it being one quote
C23_Value(cell) ==
    LET K == {i \in DOMAIN cell :
                \/ cell[i] # Quote
                \/ /\ i > 1
                   /\ cell[i - 1] = Quote
                   /\ C23_QuotesBefore(cell, i) > 0
                   /\ C23_QuotesBefore(cell, i) % 2 = 0}
    IN  [k \in 1..Cardinality(K) |-> cell[C23_Kth(K, k)]]

\* the data rows of the text: the lines after the line of the headers
C23_DataRows(text) ==
    LET lines == C23_Split(text, C23_Separators(text, LineBreak))
        data == IF lines[Len(lines)] = <<>> THEN SubSeq(lines, 2, Len(lines) - 1)
                ELSE Tail(lines)
    IN  [i \in DOMAIN data |->
           LET cells == C23_Split(data[i], C23_Separators(data[i], Comma))
           IN  [j \in DOMAIN cells |-> C23_Value(cells[j])]]

\* C23: the export of N filtered and sorted tasks has exactly N data rows,
\* row i being the nine cells of task i of filteredTasks: title, status,
\* assignee, priority, due date, estimated time, tracked time, comment count
\* and creation date
C23_ExportRows ==
    [][exportToCSV
       => LET rows == C23_DataRows(csvContent')
          IN  /\ Len(rows) = Len(filteredTasks)
              /\ \A i \in DOMAIN rows :
                   /\ Len(rows[i]) = 9
                   /\ rows[i] = ExportRow(filteredTasks[i])
                   /\ rows[i][1] = filteredTasks[i].title
                   /\ rows[i][2] = <<filteredTasks[i].status>>]_vars

\* C24: with the calls of two admins interleaved at the store operations
\* (role check, read of the target's role, admin count, write), the team
\* that has an admin never comes to have none
C24_AdminKept == AdminCount(team_members) >= 1

\* C25: updateTaskStatus changes the status of a task only for an actor who
\* is its assignee or its creator when the update is made: after a
\* reassignment between the authorization read and the update, the status
\* stays as it was
C25_StatusWriteByOwner ==
    [][statusOp.pc = "write" /\ statusOp'.pc = "idle"
       /\ ~CanMutateTask(tasks, statusOp.actor, statusOp.taskId)
       => /\ statusOp.taskId \in DOMAIN tasks' <=> statusOp.taskId \in DOMAIN tasks
          /\ statusOp.taskId \in DOMAIN tasks
                => tasks'[statusOp.taskId].status = tasks[statusOp.taskId].status]_vars

\* C26: the handlers that complete a call never take the local task back:
\* the rollback of a failed status change leaves the comments of the task as
\* they are, and the comment-added callback leaves its status as it is
C26_RollbackKeepsComments ==
    [][stc.pc = "sent" /\ stc'.pc = "failed" => task'.comments = task.comments]_vars

C26_CallbackKeepsStatus ==
    [][sub.pc = "pending" /\ sub'.pc = "confirmed" /\ task # NoTask
       => task'.status = task.status]_vars

C26_NoRegress == C26_RollbackKeepsComments /\ C26_CallbackKeepsStatus

\* the comment with that id occurs n times in the list
C27_Count(cs, id) == Cardinality({i \in DOMAIN cs : cs[i].id = id})

\* C27: a reload of the task while a comment is being written leaves the
\* pending comment in the list that is shown until the result of the write
\* arrives, and after a success the list holds the stored comment once and
\* no temporary one
C27_PendingStaysShown ==
    [](sub.pc = "pending" /\ PageShown /\ ~effectPending
         => C27_Count(comments, sub.tempId) = 1)

C27_ConfirmedOnce ==
    [](sub.pc = "confirmed" /\ PageShown /\ ~effectPending
         => /\ C27_Count(comments, sub.data.id) = 1
            /\ \A i \in DOMAIN comments : comments[i].id > 0)

C27_ReloadRobust == C27_PendingStaysShown /\ C27_ConfirmedOnce

\* C28: updateProject is a partial update: a field that the input does not
\* supply keeps its stored value, and the rows of the other projects stay as
\* they are
C28_PartialUpdate ==
    [][\A actor \in Users, projectId \in ProjectIds, input \in ProjectInputs :
         updateProject(actor, projectId, input, TRUE) /\ projectId \in projects
         => /\ \A f \in {"name", "description", "status"} :
                 input[f] = UNDEF => project_rows'[projectId][f] = project_rows[projectId][f]
            /\ \A f \in {"start_date", "end_date", "budget"} :
                 input[f] = UndefNumber
                   => project_rows'[projectId][f] = project_rows[projectId][f]
            /\ \A p \in projects \ {projectId} : project_rows'[p] = project_rows[p]]_vars

\* C29: the active_members that getTeamStats returns counts current members
\* of the team only, so it never exceeds total_members, and a member who was
\* removed is not counted
C29_ActiveAreMembers ==
    [][\A actor \in Users :
         getTeamStats(actor)
         => LET data == teamResult'.data
            IN  /\ data.active_members <= data.total_members
                /\ \A u \in ActiveUserIds(team_members, tasks, time_entries) :
                      team_members[u] # NULL]_vars

====
